---- MODULE Spec2Model ----
(***************************************************************************)
(* Verification model of the resume builder core:                          *)
(*   - llm_enhancer.clean_bullet_points (the bullet-text sanitizer), as a  *)
(*     function on sequences of characters;                                *)
(*   - ResumeBuilderCore.build_resume / create_render_script /             *)
(*     run_render_script (description files, housekeeping, the generated   *)
(*     bash render loop and the reconciliation of produced PDFs).          *)
(***************************************************************************)
EXTENDS Integers, Sequences, FiniteSets, TLC

(***************************************************************************)
(* Bounds                                                                  *)
(***************************************************************************)
\* longest input text given to clean_bullet_points
MaxLen == 4
\* last second of the wall clock
MaxClock == 2
\* number of build_resume calls in one behaviour
MaxCalls == 2
\* most lines of a reply of the enhancement service
MaxReplyLines == 3
\* most lines of a reply in a generation run
MaxBuildLines == 2
\* most files in the list given to upload_pdfs_to_s3
MaxFiles == 2

\* the longest raw phone number, in characters
MaxPhone == 11

\* the most entries of a section of the resume data
MaxEntries == 2

(***************************************************************************)
(* Characters.  A text is a sequence of one-character strings.             *)
(***************************************************************************)
\* the characters input texts are drawn from: a letter, a digit, the period,
\* a blank, two bullet glyphs (the hyphen, of the first-pass class, and the
\* black circle U+25CF, only in the full class) and the line feed
Alphabet == {"a", "1", ".", " ", "-", "u25CF", "\n"}

\* \s restricted to the alphabet; "\n" never occurs inside a line
Whitespace == {" ", "\n"}

\* \d
Digits == {"0", "1", "2", "3", "4", "5", "6", "7", "8", "9"}

\* the class [\u2022 \* \-] of the first pass; a glyph outside ASCII is
\* written as its code point
FirstPassBullets == {"u2022", "*", "-"}

\* the class with the hyphen left out, as when its escape is lost
BulletClass_NoHyphen ==
  {"u2022", "*", "u2023", "u2043", "u25E6", "u2192", "u25AA", "uFE0F",
   "u25CF", "u25A0"}

\* the class of the second, third and final pass: the first-pass glyphs and
\* U+2023, U+2043, U+25E6, U+2192, U+25AA, U+FE0F, U+25CF, U+25A0
BulletClass ==
  {"u2022", "*", "-", "u2023", "u2043", "u25E6", "u2192", "u25AA", "uFE0F",
   "u25CF", "u25A0"}

\* str.upper() on one character
Upper(c) == IF c = "a" THEN "A" ELSE c

(***************************************************************************)
(* Helpers on character sequences                                          *)
(***************************************************************************)
\* the suffix of s that starts at index i (empty when i > Len(s))
From(s, i) == SubSeq(s, i, Len(s))

\* the first index >= i of s holding a character outside cls, or Len(s)+1
RECURSIVE SkipClass(_, _, _)
SkipClass(s, i, cls) ==
  IF i <= Len(s) /\ s[i] \in cls THEN SkipClass(s, i + 1, cls) ELSE i

\* group 1 of re.match(r'^(\s*)', line): the leading whitespace of the line
leading_space(line) == SubSeq(line, 1, SkipClass(line, 1, Whitespace) - 1)

\* str.strip()
RECURSIVE RStrip(_)
RStrip(s) ==
  IF s # <<>> /\ s[Len(s)] \in Whitespace
    THEN RStrip(SubSeq(s, 1, Len(s) - 1)) ELSE s

Strip(s) == RStrip(From(s, SkipClass(s, 1, Whitespace)))

\* str.splitlines(): the pieces between line feeds; a trailing line feed
\* opens no further line, and the empty text has no line at all
RECURSIVE SplitFrom(_, _, _)
SplitFrom(s, i, cur) ==
  IF i > Len(s) THEN (IF cur = <<>> THEN <<>> ELSE <<cur>>)
  ELSE IF s[i] = "\n" THEN <<cur>> \o SplitFrom(s, i + 1, <<>>)
  ELSE SplitFrom(s, i + 1, Append(cur, s[i]))

splitlines(s) == SplitFrom(s, 1, <<>>)

\* '\n'.join(lines)
RECURSIVE JoinLines(_)
JoinLines(lines) ==
  IF lines = <<>> THEN <<>>
  ELSE IF Len(lines) = 1 THEN lines[1]
  ELSE lines[1] \o <<"\n">> \o JoinLines(Tail(lines))

\* str.split('\n'): like splitlines, but the empty text gives one empty piece
\* and a trailing line feed opens a last empty piece
RECURSIVE SplitNL(_, _, _)
SplitNL(s, i, cur) ==
  IF i > Len(s) THEN <<cur>>
  ELSE IF s[i] = "\n" THEN <<cur>> \o SplitNL(s, i + 1, <<>>)
  ELSE SplitNL(s, i + 1, Append(cur, s[i]))

(***************************************************************************)
(* clean_bullet_points, pass by pass                                       *)
(***************************************************************************)
\* end (exclusive) of a match of ^(\s*)[bullet]\s+ at the start of the line,
\* or 0 when it does not match
BulletMarkerEnd(line) ==
  LET g == SkipClass(line, 1, Whitespace)
  IN IF g <= Len(line) /\ line[g] \in FirstPassBullets
        /\ g + 1 <= Len(line) /\ line[g + 1] \in Whitespace
       THEN SkipClass(line, g + 1, Whitespace)
       ELSE 0

\* end (exclusive) of a match of \d+\.\s+ starting at index i, or 0
OrdinalEnd(line, i) ==
  LET d == SkipClass(line, i, Digits)
  IN IF d > i /\ d <= Len(line) /\ line[d] = "."
        /\ d + 1 <= Len(line) /\ line[d + 1] \in Whitespace
       THEN SkipClass(line, d + 1, Whitespace)
       ELSE 0

\* re.sub over the rest of the line once index 1 is passed: '^' can no longer
\* match, so only the alternative \d+\.\s+ is tried, at every index
RECURSIVE SubOrdinals(_, _, _)
SubOrdinals(line, i, repl) ==
  IF i > Len(line) THEN <<>>
  ELSE IF OrdinalEnd(line, i) # 0
    THEN repl \o SubOrdinals(line, OrdinalEnd(line, i), repl)
  ELSE <<line[i]>> \o SubOrdinals(line, i + 1, repl)

\* first pass: re.sub(r'^(\s*)[bullet]\s+|\d+\.\s+', leading_space, line).
\* The alternation binds weaker than '^': the ordinal alternative is not
\* anchored, and every match is replaced by the line's leading whitespace.
FirstPass(line) ==
  IF BulletMarkerEnd(line) # 0
    THEN leading_space(line)
           \o SubOrdinals(line, BulletMarkerEnd(line), leading_space(line))
    ELSE SubOrdinals(line, 1, leading_space(line))

\* second pass: re.sub(r'^(\s*)(?:[class]+\s*)+', r'\1', line): after the
\* leading whitespace, the longest run of glyphs and whitespace that starts
\* with a glyph is removed
SecondPass(line) ==
  LET g == SkipClass(line, 1, Whitespace)
  IN IF g <= Len(line) /\ line[g] \in BulletClass
       THEN leading_space(line)
              \o From(line, SkipClass(line, g, BulletClass \cup Whitespace))
       ELSE line

\* third pass: re.sub(r'[class]\s+', '', line)
RECURSIVE ThirdPass(_, _)
ThirdPass(line, i) ==
  IF i > Len(line) THEN <<>>
  ELSE IF line[i] \in BulletClass
          /\ i + 1 <= Len(line) /\ line[i + 1] \in Whitespace
    THEN ThirdPass(line, SkipClass(line, i + 1, Whitespace))
  ELSE <<line[i]>> \o ThirdPass(line, i + 1)

\* capitalisation: content_match = re.match(r'^(\s*)(.+)$', line).  On a
\* line of whitespace only the greedy \s* gives its last character back to
\* .+, and content.strip() is empty.  The conditional expression covers the
\* whole right-hand side: a one-character content replaces the line.
Capitalize(line) ==
  LET g       == SkipClass(line, 1, Whitespace)
      spaces  == SubSeq(line, 1, g - 1)
      content == From(line, g)
  IN IF g > Len(line) THEN line
     ELSE IF Len(content) > 1
       THEN spaces \o <<Upper(content[1])>> \o Tail(content)
       ELSE <<Upper(content[1])>>

\* if line.strip() and not line.strip().endswith('.'): line += '.'
EnsurePeriod(line) ==
  LET t == Strip(line)
  IN IF t # <<>> /\ t[Len(t)] # "." THEN Append(line, ".") ELSE line

\* the body of the for loop for one line that was not skipped
CleanLine(line) ==
  EnsurePeriod(Capitalize(ThirdPass(SecondPass(FirstPass(line)), 1)))

\* the for loop: completely empty lines are skipped, every other line is
\* appended to cleaned_lines after the passes, whatever is left of it
RECURSIVE CleanLines(_)
CleanLines(lines) ==
  IF lines = <<>> THEN <<>>
  ELSE IF lines[1] = <<>> THEN CleanLines(Tail(lines))
  ELSE <<CleanLine(lines[1])>> \o CleanLines(Tail(lines))

\* final pass over the joined text: re.sub(r'[class]\s*', '', result)
RECURSIVE FinalPass(_, _)
FinalPass(s, i) ==
  IF i > Len(s) THEN <<>>
  ELSE IF s[i] \in BulletClass
    THEN FinalPass(s, SkipClass(s, i + 1, Whitespace))
  ELSE <<s[i]>> \o FinalPass(s, i + 1)

clean_bullet_points(t) == FinalPass(JoinLines(CleanLines(splitlines(t))), 1)

(***************************************************************************)
(* The render round: build_resume, the generated script, run_render_script *)
(***************************************************************************)
\* the persons resumes are built for (current_name / formatted_name)
Persons == {"P", "Q"}

\* the theme list of build_resume, of the script's for loop and of the
\* housekeeping loop, in their common order
Themes == <<"classic", "moderncv", "sb2nov", "engineeringresumes">>

ThemeSet == {Themes[i] : i \in 1..Len(Themes)}

\* the number of PDFs run_render_script expects
ExpectedPdfs == 4

\* save_resume_yaml's file <name>_<timestamp>_resume_<theme>_CV.yaml
YamlFile(name, ts, theme) == [person |-> name, ts |-> ts, theme |-> theme]

\* the four files build_resume saves
SavedYamls(name, ts) == {YamlFile(name, ts, t) : t \in ThemeSet}

\* run_render_script's current_yamls: the names built from self.current_name
\* and the timestamp taken when housekeeping starts
current_yamls(name, now) == {YamlFile(name, now, t) : t \in ThemeSet}

\* housekeeping that only removes the older files of the same person
RemovedYamls_SamePerson(files, name, now) ==
  {f \in files : f.person = name} \ current_yamls(name, now)

\* the files housekeeping passes to os.remove: every .yaml file of the
\* directory that is not in current_yamls
RemovedYamls(files, name, now) == files \ current_yamls(name, now)

\* what the renderer may do in one invocation: its exit status, and whether
\* it left a PDF in the output folder it was given
RendererOutcomes == [exit : {0, 1}, wrote : BOOLEAN]

\* the theme folder after `rendercv render`: a PDF is named after the person,
\* so a new one replaces an older one of the same person
AfterRender(folder, name, call, o) ==
  IF o.wrote
    THEN {f \in folder : f.name # name} \cup {[name |-> name, madeBy |-> call]}
    ELSE folder

\* a loop that breaks at the first theme without a PDF
NextTheme_Break(i, found) == IF found THEN i + 1 ELSE Len(Themes) + 1

\* the index the for loop goes to after a theme that was rendered with exit
\* status 0, whether or not a PDF was found: the next theme
NextTheme(i, found) == i + 1

\* the diagnostics run_render_script returns
NoMsg == [kind |-> "none", expected |-> 0, found |-> 0]

StderrMsg == [kind |-> "stderr", expected |-> 0, found |-> 0]

ExceptionMsg == [kind |-> "exception", expected |-> 0, found |-> 0]

CountMsg(n) == [kind |-> "count", expected |-> ExpectedPdfs, found |-> n]

\* reconciliation without the count gate
RenderResult_NoCount(code, files) ==
  IF code # 0
    THEN [success |-> FALSE, msg |-> StderrMsg, new_pdfs |-> {}]
    ELSE [success |-> TRUE, msg |-> NoMsg, new_pdfs |-> files]

\* lines 351-361: the tuple returned once the script has ended with status
\* code, files being the PDFs then listed in the output directory
RenderResult(code, files) ==
  IF code # 0
    THEN [success |-> FALSE, msg |-> StderrMsg, new_pdfs |-> {}]
  ELSE IF Cardinality(files) # ExpectedPdfs
    THEN [success |-> FALSE, msg |-> CountMsg(Cardinality(files)),
          new_pdfs |-> {}]
  ELSE [success |-> TRUE, msg |-> NoMsg, new_pdfs |-> files]

\* line 363-364: what the except clause makes of an exception
ExceptionResult == [success |-> FALSE, msg |-> ExceptionMsg, new_pdfs |-> {}]

NoResult == [success |-> FALSE, msg |-> NoMsg, new_pdfs |-> {}]

\* the errors the file operations of housekeeping may raise
OSErrors == {"FileNotFoundError", "PermissionError"}

\* the classes `except Exception` catches, as far as the model raises them
Caught(e) == e \in {"FileNotFoundError", "PermissionError", "Exception"}

(***************************************************************************)
(* The response parsers and the enhancement gateway (llm_enhancer.py)      *)
(***************************************************************************)
\* the content kinds
Kinds == {"experience", "bio", "activity"}

\* the envelope marker of a kind.  A marker is carried as one element of a
\* text: it has no whitespace at its ends, no bullet glyph and no digit, so
\* that strip(), the comparison with the marker and the sanitizer treat the
\* element as they treat the literal.
Marker(kind) ==
  CASE kind = "experience" -> "### Experience ###"
    [] kind = "bio"        -> "### Professional Summary ###"
    [] kind = "activity"   -> "### Activities ###"

\* the loop without its `continue`: the marker line is collected as well
RECURSIVE CollectLines_KeepMarker(_, _, _, _)
CollectLines_KeepMarker(lines, i, marker, start_parsing) ==
  IF i > Len(lines) THEN <<>>
  ELSE IF start_parsing \/ Strip(lines[i]) = <<marker>>
    THEN <<lines[i]>> \o CollectLines_KeepMarker(lines, i + 1, marker, TRUE)
  ELSE CollectLines_KeepMarker(lines, i + 1, marker, FALSE)

\* the for loop of parse_experience and parse_activity over lines[i..]: a
\* line whose stripped form is the marker sets start_parsing and is passed
\* over (also when start_parsing is already set); any other line is appended
\* as it is once start_parsing is set
RECURSIVE CollectLines(_, _, _, _)
CollectLines(lines, i, marker, start_parsing) ==
  IF i > Len(lines) THEN <<>>
  ELSE IF Strip(lines[i]) = <<marker>>
    THEN CollectLines(lines, i + 1, marker, TRUE)
  ELSE IF start_parsing
    THEN <<lines[i]>> \o CollectLines(lines, i + 1, marker, TRUE)
  ELSE CollectLines(lines, i + 1, marker, FALSE)

\* the for loop of parse_bio: every line is stripped first, and a collected
\* line is added to bio_content followed by one blank
RECURSIVE CollectBio(_, _, _, _)
CollectBio(lines, i, marker, start_parsing) ==
  IF i > Len(lines) THEN <<>>
  ELSE IF Strip(lines[i]) = <<marker>>
    THEN CollectBio(lines, i + 1, marker, TRUE)
  ELSE IF start_parsing
    THEN Strip(lines[i]) \o <<" ">> \o CollectBio(lines, i + 1, marker, TRUE)
  ELSE CollectBio(lines, i + 1, marker, FALSE)

\* a parser that collects from the first line on, marker or not
parse_experience_NoMarker(t) ==
  Strip(clean_bullet_points(
    JoinLines(CollectLines(splitlines(t), 1, Marker("experience"), TRUE))))

parse_experience(t) ==
  Strip(clean_bullet_points(
    JoinLines(CollectLines(splitlines(t), 1, Marker("experience"), FALSE))))

\* a bio parser that pipes the collected text through the sanitizer
parse_bio_Sanitized(t) ==
  Strip(clean_bullet_points(
    CollectBio(splitlines(t), 1, Marker("bio"), FALSE)))

\* parse_bio returns bio_content.strip(); clean_bullet_points is not called
parse_bio(t) == Strip(CollectBio(splitlines(t), 1, Marker("bio"), FALSE))

parse_activity(t) ==
  Strip(clean_bullet_points(
    JoinLines(CollectLines(splitlines(t), 1, Marker("activity"), FALSE))))

\* the parser generate_enhanced_<kind> calls
Parse(kind, t) ==
  CASE kind = "experience" -> parse_experience(t)
    [] kind = "bio"        -> parse_bio(t)
    [] kind = "activity"   -> parse_activity(t)

\* the lines a reply of the service is made of, for a kind: an empty and a
\* blank line, plain text, bullet lines (one with a blank after its period,
\* one with a dollar sign), a bare bullet marker, the kind's marker with and
\* without surrounding blanks, and the marker of another kind
ReplyLines(kind) ==
  { <<>>, <<" ">>, <<"a">>, <<"-", " ", "a">>, <<"-", " ", "a", ".", " ">>,
    <<"-", " ", "$", "a">>, <<"-">>,
    <<Marker(kind)>>, <<" ", Marker(kind), " ">>,
    <<Marker(IF kind = "bio" THEN "experience" ELSE "bio")>> }

\* the texts of at most n lines of a set
TextsOfLines(lineset, n) ==
  {JoinLines(ls) : ls \in UNION {[1..k -> lineset] : k \in 0..n}}

\* the texts the model may answer with
ReplyTexts(kind) == TextsOfLines(ReplyLines(kind), MaxReplyLines)

\* what a call of bedrock.invoke_model and the decoding of its body may give:
\* an exception of the transport, of authentication or of json.loads, a
\* decoded body of an unrecognized shape, or a body whose content is a list
\* that starts with a text block
FailedReplies ==
  [status : {"transport_error", "auth_error", "bad_json"}, shape : {"none"},
   text : {<<>>}]
    \cup [status : {"ok"},
          shape : {"no_content", "content_not_list", "block_without_text"},
          text : {<<>>}]

Replies(kind) ==
  FailedReplies \cup
  [status : {"ok"}, shape : {"text"}, text : ReplyTexts(kind)]

\* lines 126-150 (201-227, 280-306): the try block of generate_experience
\* (generate_bio, generate_activity) for one reply; every exception raised in
\* it and every unexpected shape gives the empty string
GenerateInTry(reply) ==
  IF reply.status = "ok" /\ reply.shape = "text" THEN reply.text ELSE <<>>

\* boto3.client(...) may succeed or raise
ClientOutcomes == {"ok", "raises"}

NoReply == [status |-> "none", shape |-> "none", text |-> <<>>]

(***************************************************************************)
(* sanitize_resume_data                                                    *)
(***************************************************************************)
\* the str branch, data.replace('$', '\\$'): a backslash is put before
\* every dollar sign, whatever stands before it already
RECURSIVE sanitize_str(_)
sanitize_str(data) ==
  IF data = <<>> THEN <<>>
  ELSE (IF Head(data) = "$" THEN <<"\\", "$">> ELSE <<Head(data)>>)
         \o sanitize_str(Tail(data))

\* the list branch
sanitize_list(data) == [i \in 1..Len(data) |-> sanitize_str(data[i])]

\* the dict branch, over the fields of the resume data that hold prose: the
\* bio and, per experience and activity entry, the description list
sanitize_resume_data(data) ==
  [bio |-> sanitize_str(data.bio),
   experience |->
     [i \in 1..Len(data.experience) |-> sanitize_list(data.experience[i])],
   activities |->
     [i \in 1..Len(data.activities) |-> sanitize_list(data.activities[i])]]

\* the characters of the strings given to the str branch
EscapeAlphabet == {"a", "$", "\\"}

EscapeTexts == UNION {[1..n -> EscapeAlphabet] : n \in 0..MaxLen}

(***************************************************************************)
(* build_resume and the generation run of app.py's main, up to the         *)
(* description files                                                       *)
(***************************************************************************)
\* the lines a reply is made of in a generation run
BuildLines(kind) ==
  {<<>>, <<"-", " ", "$", "a">>, <<"-">>, <<Marker(kind)>>}

BuildReplies(kind) ==
  FailedReplies \cup
  [status : {"ok"}, shape : {"text"},
   text : TextsOfLines(BuildLines(kind), MaxBuildLines)]

\* what a call of generate_enhanced_<kind> can do: an exception of one of
\* its two boto3.client calls leaves it, a reply that failed inside the try
\* block gives the empty text, any other reply gives the parser's result
EnhanceOutcomes(k) ==
  {[how |-> "raises", text |-> <<>>]} \cup
  {[how |-> IF r \in FailedReplies THEN "failed" ELSE "returns",
    text |-> Parse(k, GenerateInTry(r))] : r \in BuildReplies(k)}

BioOutcomes == EnhanceOutcomes("bio")

ExperienceOutcomes == EnhanceOutcomes("experience")

ActivityOutcomes == EnhanceOutcomes("activity")

\* the resume data given to a generation run: a bio, and at most one
\* experience and one activity entry, each entry being its description list
FormBios == {<<>>, <<"$", "a">>}

FormEntries == {<<>>, << <<>> >>, << << <<"$", "a">> >> >>}

BuildInputs ==
  [bio : FormBios, experience : FormEntries, activities : FormEntries]

\* the theme list of app.py's main
AppThemes == <<"sb2nov", "moderncv", "classic", "engineeringresumes">>

\* the entries whose description is enhanced: if exp.get("description")
Described(entries) == {i \in 1..Len(entries) : entries[i] # <<>>}

\* the first entry whose enhancement raises under the outcomes os, or 0
FirstRaise(entries, os) ==
  LET R == {i \in Described(entries) : os[i].how = "raises"}
  IN  IF R = {} THEN 0 ELSE CHOOSE i \in R : \A j \in R : i <= j

\* the entries the loop reaches before it ends or an exception leaves it
Reached(entries, os) ==
  {i \in Described(entries) :
     FirstRaise(entries, os) = 0 \/ i <= FirstRaise(entries, os)}

\* build_resume lines 473 and 481: "\n".join(exp["description"])
description_text(description) == JoinLines(description)

\* build_resume lines 474-476 and 482-484: the enhanced text is split at
\* line feeds, and the pieces become the description
enhanced_description(t) == SplitNL(t, 1, <<>>)

\* build_resume's for loops: the descriptions are replaced in place, up to
\* the entry whose enhancement raises
EnhancedEntries(entries, os) ==
  [i \in 1..Len(entries) |->
     IF i \in Reached(entries, os) /\ os[i].how # "raises"
       THEN enhanced_description(os[i].text) ELSE entries[i]]

\* app.py line 59: the bullets that are not blank, each behind "- "
RECURSIVE AppBullets(_)
AppBullets(description) ==
  IF description = <<>> THEN <<>>
  ELSE IF Strip(Head(description)) = <<>> THEN AppBullets(Tail(description))
  ELSE << <<"-", " ">> \o Head(description) >>
         \o AppBullets(Tail(description))

app_description_text(description) == JoinLines(AppBullets(description))

\* app.py lines 63-67: the pieces that are not blank, without a leading "- "
RECURSIVE AppPieces(_)
AppPieces(lines) ==
  IF lines = <<>> THEN <<>>
  ELSE IF Strip(Head(lines)) = <<>> THEN AppPieces(Tail(lines))
  ELSE << IF Len(Head(lines)) >= 2 /\ SubSeq(Head(lines), 1, 2) = <<"-", " ">>
            THEN From(Head(lines), 3) ELSE Head(lines) >>
         \o AppPieces(Tail(lines))

enhanced_bullets(t) == AppPieces(SplitNL(t, 1, <<>>))

\* enhance_experience_descriptions / enhance_activity_descriptions: a new
\* list of entries
AppEnhancedEntries(entries, os) ==
  [i \in 1..Len(entries) |->
     IF i \in Described(entries) THEN enhanced_bullets(os[i].text)
     ELSE entries[i]]

\* the texts the entries give to the prompt, in build_resume and in app.py
DescriptionTexts(entries) ==
  [i \in 1..Len(entries) |-> description_text(entries[i])]

AppDescriptionTexts(entries) ==
  [i \in 1..Len(entries) |-> app_description_text(entries[i])]

\* the prompts of the entries reached, with the number of escaping passes
\* the data went through before
EntryPrompts(k, texts, reached, n) ==
  {[kind |-> k, text |-> texts[i], passes |-> n] : i \in reached}

\* generate_resume_yaml of resume_builder_core.py: the sections that hold
\* prose; a missing section is the empty list
generate_resume_yaml(resume_data, theme) ==
  [theme |-> theme,
   summary |-> IF resume_data.bio # <<>> THEN <<resume_data.bio>> ELSE <<>>,
   experience |-> resume_data.experience,
   activities |-> resume_data.activities]

\* generate_resume_yaml of app.py: the summary is the bio enhanced at line
\* 178, all other prose is taken from the resume data
app_generate_resume_yaml(resume_data, theme, enhanced_bio) ==
  [theme |-> theme,
   summary |-> IF resume_data.bio # <<>> THEN <<enhanced_bio>> ELSE <<>>,
   experience |-> resume_data.experience,
   activities |-> resume_data.activities]

NoData == [bio |-> <<>>, experience |-> <<>>, activities |-> <<>>]

(***************************************************************************)
(* upload_pdfs_to_s3                                                       *)
(***************************************************************************)
PdfNames == {"classic.pdf", "moderncv.pdf", "sb2nov.pdf"}

\* the pdf_files argument
PdfLists == UNION {[1..n -> PdfNames] : n \in 0..MaxFiles}

\* what s3_client.upload_file can do: return, raise a ClientError, or raise
\* something else (boto3 wraps the ClientError of a failed transfer in an
\* S3UploadFailedError, which is no ClientError)
UploadOutcomes == {"ok", "ClientError", "S3UploadFailedError"}

NoUploadResult == [success |-> FALSE, uris |-> {}, msg |-> "none"]

EmptyListResult ==
  [success |-> FALSE, uris |-> {},
   msg |-> "No PDF files provided for upload"]

NoneUploadedResult ==
  [success |-> FALSE, uris |-> {},
   msg |-> "No PDF files were successfully uploaded"]

UnexpectedResult ==
  [success |-> FALSE, uris |-> {},
   msg |-> "An unexpected error occurred during S3 upload"]

UploadedResult(uris) == [success |-> TRUE, uris |-> uris, msg |-> ""]

\* the storage client is created before the list is looked at
BeginUpload_ClientFirst(files, o) ==
  IF o = "raises"
    THEN [calls |-> <<"client">>, upc |-> "returned",
          ret |-> UnexpectedResult]
  ELSE IF files = <<>>
    THEN [calls |-> <<"client">>, upc |-> "returned",
          ret |-> EmptyListResult]
  ELSE [calls |-> <<"client">>, upc |-> "loop", ret |-> NoUploadResult]

\* lines 388-392: the empty list returns before boto3.client('s3'), whose
\* exception the outer handler turns into a result
BeginUpload(files, o) ==
  IF files = <<>>
    THEN [calls |-> <<>>, upc |-> "returned", ret |-> EmptyListResult]
  ELSE IF o = "raises"
    THEN [calls |-> <<"client">>, upc |-> "returned",
          ret |-> UnexpectedResult]
  ELSE [calls |-> <<"client">>, upc |-> "loop", ret |-> NoUploadResult]

(***************************************************************************)
(* build_resume as a whole, called by main or directly                     *)
(***************************************************************************)
\* what a key of input_data holds: no such key, an empty value, or a value
FieldStates == {"missing", "empty", "given"}

\* the experience list: no key, no entry, entries without a description
\* (what format_input_data builds), or entries with one
ExperienceStates == {"missing", "empty", "undescribed", "described"}

AllGiven ==
  [name |-> "given", email |-> "given", phone |-> "given", bio |-> "given",
   experience |-> "described"]

\* the fields of a request that are not as in AllGiven
Defects(r) == {f \in DOMAIN AllGiven : r[f] # AllGiven[f]}

\* the requests given to build_resume: at most one field is not as it
\* should be
Requests ==
  {r \in [name : FieldStates, email : FieldStates, phone : FieldStates,
          bio : FieldStates, experience : ExperienceStates] :
     Cardinality(Defects(r)) <= 1}

\* the requests format_input_data builds (lines 64-118): every key is there,
\* the name holds at least the blank of f"{first} {last}", the phone at
\* least the '+' of format_phone_number, every description is []
MainRequests ==
  {r \in [name : {"given"}, email : {"empty", "given"}, phone : {"given"},
          bio : {"empty", "given"}, experience : {"empty", "undescribed"}] :
     Cardinality(Defects(r) \ {"experience"}) <= 1}

\* a required field (name, email, phone, an experience entry) is missing or
\* empty
RequiredFieldDefect(r) ==
  \/ r.name # "given"
  \/ r.email # "given"
  \/ r.phone # "given"
  \/ r.experience \in {"missing", "empty"}

\* line 459: "".join(x for x in name if x.isalnum())
PersonOf(r) == IF r.name = "given" THEN "P" ELSE ""

\* lines 467-484: an enhancement call is made for a bio that is not empty
\* and for every entry with a description
EnhancementDue(r) == r.bio = "given" \/ r.experience = "described"

\* the cause of a failure: what failed, and the diagnostic of the render or
\* of the upload step
Cause(what, render, upload) ==
  [what |-> what, render |-> render, upload |-> upload]

NoCause == Cause("none", NoMsg, "")

\* the exception is passed on as it is
Wrap_Bare(cause) == [raised |-> TRUE, wrapped |-> FALSE, cause |-> cause]

\* lines 530-531: raise Exception(f"Resume building failed: {str(e)}")
Wrap(cause) == [raised |-> TRUE, wrapped |-> TRUE, cause |-> cause]

NoFailure == [raised |-> FALSE, wrapped |-> FALSE, cause |-> NoCause]

\* the list is returned whatever the upload reported
BuildOutcome_NoCheck(u) ==
  [failure |-> NoFailure, uris |-> u.uris, ppc |-> "returned"]

\* lines 525-528: a failed upload raises, otherwise the URIs are returned
BuildOutcome(u) ==
  IF ~u.success
    THEN [failure |-> Wrap(Cause("S3 upload failed", NoMsg, u.msg)),
          uris |-> {}, ppc |-> "raised"]
    ELSE [failure |-> NoFailure, uris |-> u.uris, ppc |-> "returned"]

\* the orders in which os.listdir may give the files of a directory
Listings(files) ==
  {l \in [1..Cardinality(files) -> files] :
     \A i, j \in 1..Cardinality(files) : i # j => l[i] # l[j]}

\* main's output: nothing yet, {"s3_uris": [...]}, or {"error": "..."}
NoOutput == [key |-> "none", uris |-> {}, error |-> NoFailure, exit |-> 0]

(***************************************************************************)
(* Document assembly: phone, dates, education, design                      *)
(***************************************************************************)
\* the characters of the raw phone numbers
PhoneAlphabet == {"5", "-"}

\* the raw phone numbers of at most MaxPhone characters
Phones == UNION {[1..n -> PhoneAlphabet] : n \in 0..MaxPhone}

IsDigit(c) == c \in Digits

\* a format_phone_number that prefixes the country code to 10 digits or more
format_phone_number_AtLeast(phone) ==
  LET digits == SelectSeq(phone, IsDigit)
  IN <<"+">> \o (IF Len(digits) >= 10 THEN <<"1">> \o digits ELSE digits)

\* format_phone_number: the digits of phone, '1' prefixed to exactly 10 of
\* them, after a '+'
format_phone_number(phone) ==
  LET digits == SelectSeq(phone, IsDigit)
  IN <<"+">> \o (IF Len(digits) = 10 THEN <<"1">> \o digits ELSE digits)

\* s.split(c)[0]: s up to its first c
RECURSIVE Before(_, _)
Before(s, c) ==
  IF s = <<>> \/ Head(s) = c THEN <<>>
  ELSE <<Head(s)>> \o Before(Tail(s), c)

\* s after its first c, empty without one
RECURSIVE After(_, _)
After(s, c) ==
  IF s = <<>> THEN <<>>
  ELSE IF Head(s) = c THEN Tail(s) ELSE After(Tail(s), c)

\* c in s
Contains(s, c) == \E i \in 1..Len(s) : s[i] = c

\* the dates of the entries, as date objects <<year, month, day>>
DateObjects == {<<2, 1, 1>>, <<2, 1, 2>>}

DigitChar(n) == CASE n = 0 -> "0" [] n = 1 -> "1" [] n = 2 -> "2"

\* date.strftime("%Y-%m-%d")
strftime(d) ==
  <<DigitChar(d[1]), "-", DigitChar(d[2]), "-", DigitChar(d[3])>>

\* the dates as texts
DateTexts == {strftime(d) : d \in DateObjects}

\* the "start" and "end" values of the input of main: a date, or a date
\* and a time of day
Timestamps == DateTexts \cup {d \o <<"T", "0">> : d \in DateTexts}

\* the literal "present"
PresentLiteral == <<"p", "r", "e", "s", "e", "n", "t">>

\* the lists of at most MaxEntries elements of S
Lists(S) == UNION {[1..n -> S] : n \in 0..MaxEntries}

\* the experience and activity entries of the input of main
MainDated == [current : BOOLEAN, end : Timestamps]

\* format_input_data lines 93-102 and 105-113: the entry of the resume data
format_dated(exp) ==
  [current |-> exp.current,
   end_date |-> IF ~exp.current THEN Before(exp.end, "T") ELSE <<>>]

\* the experience and activity entries of a direct build_resume call
CoreDated == [current : BOOLEAN, end_date : DateTexts \cup {<<>>}]

\* the experience and activity entries of the form
AppDated == [current : BOOLEAN, end_date : DateObjects]

\* a GPA: absent (None), 0.0 or 3.0
NoGpa == [given |-> FALSE, value |-> 0]

Gpa(v) == [given |-> TRUE, value |-> v]

Gpas == {NoGpa, Gpa(0), Gpa(3)}

\* the "location" values of the education entries of the input of main
Locations ==
  {<<>>, <<"c">>, <<"c", ",", "s">>, <<",", "s">>, <<"c", ",">>,
   <<"c", ",", " ">>}

\* the education entries of the input of main
MainEducation == [name : {<<>>, <<"u">>}, location : Locations, gpa : Gpas]

\* format_input_data lines 82-90: the entry of the resume data; address
\* and zip are not set
format_education(edu) ==
  [school |-> edu.name,
   city |-> Strip(Before(edu.location, ",")),
   state |-> IF Contains(edu.location, ",")
               THEN Strip(Before(After(edu.location, ","), ","))
               ELSE <<>>,
   address |-> <<>>,
   zip |-> <<>>,
   gpa |-> edu.gpa]

\* what an education entry may hold besides school, city and state
Extras ==
  {[address |-> <<>>, zip |-> <<>>, gpa |-> NoGpa],
   [address |-> <<>>, zip |-> <<>>, gpa |-> Gpa(0)],
   [address |-> <<"a">>, zip |-> <<"9">>, gpa |-> Gpa(3)]}

\* the education entries of the resume data
EducationEntries ==
  {[school |-> s, city |-> c, state |-> t, address |-> x.address,
    zip |-> x.zip, gpa |-> x.gpa] :
     s \in {<<>>, <<"u">>, <<"$">>}, c \in {<<>>, <<"c">>},
     t \in {<<>>, <<"s">>}, x \in Extras}

\* format_input_data lines 59-121, over the fields followed here
format_input_data(input_dict) ==
  [phone |-> format_phone_number(input_dict.phone),
   education |->
     [i \in 1..Len(input_dict.education) |->
        format_education(input_dict.education[i])],
   experience |->
     [i \in 1..Len(input_dict.experience) |->
        format_dated(input_dict.experience[i])],
   activities |->
     [i \in 1..Len(input_dict.activities) |->
        format_dated(input_dict.activities[i])]]

\* sanitize_resume_data on an education entry: every string is escaped, a
\* number is left as it is
sanitize_education(edu) ==
  [school |-> sanitize_str(edu.school),
   city |-> sanitize_str(edu.city),
   state |-> sanitize_str(edu.state),
   address |-> sanitize_str(edu.address),
   zip |-> sanitize_str(edu.zip),
   gpa |-> edu.gpa]

\* sanitize_resume_data on an experience or activity entry of the core
sanitize_dated(exp) ==
  [current |-> exp.current, end_date |-> sanitize_str(exp.end_date)]

\* sanitize_resume_data over the fields followed here
sanitize_fields(d) ==
  [phone |-> sanitize_str(d.phone),
   education |->
     [i \in 1..Len(d.education) |-> sanitize_education(d.education[i])],
   experience |->
     [i \in 1..Len(d.experience) |-> sanitize_dated(d.experience[i])],
   activities |->
     [i \in 1..Len(d.activities) |-> sanitize_dated(d.activities[i])]]

\* the same in app.py, where the dates are date objects, left as they are
app_sanitize_fields(d) ==
  [phone |-> sanitize_str(d.phone),
   education |->
     [i \in 1..Len(d.education) |-> sanitize_education(d.education[i])],
   experience |-> d.experience,
   activities |-> d.activities]

\* a design part that carries the flag for every theme
design_part_Always(theme) ==
  [theme |-> theme, has_flag |-> TRUE, disable_last_updated_date |-> TRUE]

\* the "design" part: the theme, and disable_last_updated_date set to True
\* for every theme but moderncv
design_part(theme) ==
  IF theme # "moderncv"
    THEN [theme |-> theme, has_flag |-> TRUE,
          disable_last_updated_date |-> TRUE]
    ELSE [theme |-> theme, has_flag |-> FALSE,
          disable_last_updated_date |-> FALSE]

\* a location that is set when city or state is given
has_location_Either(edu) == edu.city # <<>> \/ edu.state # <<>>

\* edu.get("city") and edu.get("state")
has_location(edu) == edu.city # <<>> /\ edu.state # <<>>

\* the location_parts of an education entry
location_parts(edu) ==
  (IF edu.address # <<>> THEN <<edu.address>> ELSE <<>>)
    \o <<edu.city, edu.state>>
    \o (IF edu.zip # <<>> THEN <<edu.zip>> ELSE <<>>)

\* the education_entry of an entry with a school
education_entry(edu) ==
  [institution |-> edu.school,
   has_location |-> has_location(edu),
   location |-> IF has_location(edu) THEN location_parts(edu) ELSE <<>>,
   has_highlights |-> edu.gpa.given /\ edu.gpa.value # 0,
   highlights |-> IF edu.gpa.given /\ edu.gpa.value # 0
                    THEN <<edu.gpa.value, 4>> ELSE <<>>]

HasSchool(edu) == edu.school # <<>>

\* the education section: present when an entry has a school
education_section(education) ==
  LET kept == SelectSeq(education, HasSchool)
      education_list == [i \in 1..Len(kept) |-> education_entry(kept[i])]
  IN [present |-> education # <<>> /\ education_list # <<>>,
      entries |-> education_list]

\* an end_date that is the entry's end date whatever current is
entry_end_date_Always(current, end) == end

\* "present" if exp["current"] else exp["end_date"]
entry_end_date(current, end) ==
  IF current THEN PresentLiteral ELSE end

\* the experience and the activities section of the core
dated_section(entries) ==
  [present |-> entries # <<>>,
   entries |->
     [i \in 1..Len(entries) |->
        [end_date |->
           entry_end_date(entries[i].current, entries[i].end_date)]]]

\* the same in app.py: the date object is formatted
app_dated_section(entries) ==
  [present |-> entries # <<>>,
   entries |->
     [i \in 1..Len(entries) |->
        [end_date |->
           IF entries[i].current THEN PresentLiteral
           ELSE strftime(entries[i].end_date)]]]

\* cv_data of generate_resume_yaml of the core, over the fields followed
\* here
cv_data(resume, theme) ==
  [design |-> design_part(theme),
   phone |-> resume.phone,
   education |-> education_section(resume.education),
   experience |-> dated_section(resume.experience),
   activities |-> dated_section(resume.activities)]

\* cv_data of generate_resume_yaml of app.py
app_cv_data(resume, theme) ==
  [design |-> design_part(theme),
   phone |-> resume.phone,
   education |-> education_section(resume.education),
   experience |-> app_dated_section(resume.experience),
   activities |-> app_dated_section(resume.activities)]

\* the inputs: one of the phone and the three sections varies, the others
\* are empty
OneVaries(phones, educations, dateds) ==
  { [phone |-> p, education |-> <<>>, experience |-> <<>>,
     activities |-> <<>>] : p \in phones }
  \cup { [phone |-> <<"5">>, education |-> e, experience |-> <<>>,
          activities |-> <<>>] : e \in Lists(educations) }
  \cup { [phone |-> <<"5">>, education |-> <<>>, experience |-> x,
          activities |-> <<>>] : x \in Lists(dateds) }
  \cup { [phone |-> <<"5">>, education |-> <<>>, experience |-> <<>>,
          activities |-> x] : x \in Lists(dateds) }

\* the inputs of main, of a direct build_resume call and of the form
MainInputs == OneVaries(Phones, MainEducation, MainDated)

CoreInputs == OneVaries(Phones, EducationEntries, CoreDated)

AppInputs == OneVaries({<<"5">>}, EducationEntries, AppDated)

NoInput ==
  [phone |-> <<>>, education |-> <<>>, experience |-> <<>>,
   activities |-> <<>>]

VARIABLES
  text,         \* the argument of clean_bullet_points
  result,       \* clean_bullet_points(text)
  result2,      \* clean_bullet_points(result)
  phase,        \* "input", "cleaned", "recleaned"
  clock,        \* datetime.now(), in seconds
  calls,        \* number of build_resume calls started
  pc,           \* position of the running build_resume call, or "idle"
  current_name, \* self.current_name, also the script's formatted_name
  timestamp,    \* build_resume's timestamp, also the script's
  yamls,        \* the description files in yamlfiles/
  pdfs,         \* the PDFs directly in rendercv_output/pdf_outputs/
  folder,       \* the PDFs in each theme folder pdf_outputs/<theme>/
  idx,          \* the theme the script's for loop is at (index in Themes)
  returncode,   \* the script's exit status
  rendered,     \* renderer invocations of this call: theme and outcome
  removed,      \* the description files the last housekeeping deleted
  raised,       \* TRUE when an exception left run_render_script
  ret,          \* what run_render_script returned
  kind,         \* the kind of generate_enhanced_<kind>
  epc,          \* position of the running generate_enhanced_<kind> call
  reply,        \* what the service call of the gateway gave
  generated,    \* generated_text, the gateway's return value
  parsed,       \* the parser's return value
  propagated,   \* the function an exception left unhandled, or "none"
  data,         \* the string given to sanitize_resume_data
  once,         \* sanitize_resume_data(data)
  twice,        \* sanitize_resume_data(once)
  passes,       \* number of passes made over data
  flow,         \* "core": build_resume, "app": main of app.py
  bpc,          \* position of the generation run
  input_data,   \* the resume data before the escaping pass
  resume_data,  \* the resume data the description files are made from
  prompts,      \* the texts given to generate_enhanced_<kind> so far
  sanitize_calls, \* number of sanitize_resume_data calls of the run
  theme_idx,    \* the theme the description file loop is at
  documents,    \* the description files written, in order
  hows,         \* how the enhancement calls of the run ended
  build_error,  \* the message of the exception that ended the run
  pdf_files,    \* the pdf_files argument of upload_pdfs_to_s3
  on_disk,      \* the files present in pdf_directory
  upc,          \* position of the upload_pdfs_to_s3 call
  file_idx,     \* the file the upload loop is at
  s3_calls,     \* the storage calls made: "client", then the files tried
  pdf_uris,     \* the files in the pdf_uris mapping
  upload_ret,   \* what upload_pdfs_to_s3 returned
  caller,       \* who called build_resume: "main" or "direct"
  request,      \* what the keys of build_resume's input_data hold
  ppc,          \* position of the build_resume call as a whole
  enhance_called, \* TRUE once an enhancement call was made
  failure,      \* the exception that left build_resume
  s3_uris,      \* the URIs build_resume returned
  printed,      \* what main printed
  ipc,          \* position of each of two interleaved runs
  iidx,         \* the theme each run's script is at
  icode,        \* the exit status of each run's script
  iret,         \* what run_render_script returned to each run
  removed_yamls, \* the description files each run's housekeeping deleted
  removed_pdfs, \* the PDFs each run's housekeeping deleted
  yaml_dir,     \* yamlfiles/ as the two runs share it
  output_dir,   \* rendercv_output/pdf_outputs/ as the two runs share it
  theme_dir,    \* the theme folders as the two runs share them
  doc_flow,     \* "main", "core" (a direct build_resume call) or "app"
  doc_pc,       \* position of the run that assembles the documents
  input_dict,   \* the input of the run
  formatted_data, \* the resume data on its way to generate_resume_yaml
  cv_idx,       \* the theme the assembly loop is at
  cv_datas      \* the cv_data assembled so far, in order

svars == <<text, result, result2, phase>>

rvars ==
  <<clock, calls, pc, current_name, timestamp, yamls, pdfs, folder, idx,
    returncode, rendered, removed, raised, ret>>

evars == <<kind, epc, reply, generated, parsed, propagated>>

\* the variables of the specifications added to the first two
zvars == <<data, once, twice, passes>>

bvars ==
  <<flow, bpc, input_data, resume_data, prompts, sanitize_calls, theme_idx,
    documents, hows, build_error>>

uvars ==
  <<pdf_files, on_disk, upc, file_idx, s3_calls, pdf_uris, upload_ret>>

pvars ==
  <<caller, request, ppc, enhance_called, failure, s3_uris, printed>>

ivars ==
  <<ipc, iidx, icode, iret, removed_yamls, removed_pdfs, yaml_dir,
    output_dir, theme_dir>>

\* the variables of the specifications added after the pipeline
dvars == <<doc_flow, doc_pc, input_dict, formatted_data, cv_idx, cv_datas>>

nvars == <<ivars, dvars>>

xvars == <<evars, zvars, bvars, uvars, pvars, nvars>>

\* what the actions of one group of variables leave unchanged
keepE == <<svars, rvars, zvars, bvars, uvars, pvars, nvars>>

keepZ == <<svars, rvars, evars, bvars, uvars, pvars, nvars>>

keepB == <<svars, rvars, evars, zvars, uvars, pvars, nvars>>

keepU == <<svars, rvars, evars, zvars, bvars, pvars, nvars>>

keepP == <<svars, rvars, evars, zvars, bvars, uvars, nvars>>

keepI == <<svars, rvars, evars, zvars, bvars, uvars, pvars, dvars>>

keepD == <<svars, rvars, evars, zvars, bvars, uvars, pvars, ivars>>

vars == <<svars, rvars, xvars>>

\* the texts of at most MaxLen characters
Texts == UNION {[1..n -> Alphabet] : n \in 0..MaxLen}

SanitizerIdle ==
  /\ text = <<>>
  /\ result = <<>>
  /\ result2 = <<>>
  /\ phase = "input"

\* the state before the first build_resume call: empty working directories
RenderIdle ==
  /\ clock = 0
  /\ calls = 0
  /\ pc = "idle"
  /\ current_name = "none"
  /\ timestamp = 0
  /\ yamls = {}
  /\ pdfs = {}
  /\ folder = [t \in ThemeSet |-> {}]
  /\ idx = 1
  /\ returncode = 0
  /\ rendered = <<>>
  /\ removed = {}
  /\ raised = FALSE
  /\ ret = NoResult

\* no generate_enhanced_<kind> call is running
EnhanceIdle ==
  /\ kind = "experience"
  /\ epc = "start"
  /\ reply = NoReply
  /\ generated = <<>>
  /\ parsed = <<>>
  /\ propagated = "none"

\* no sanitize_resume_data call has been made
EscapeIdle ==
  /\ data = <<>>
  /\ once = <<>>
  /\ twice = <<>>
  /\ passes = 0

\* no generation run is under way
BuildIdle ==
  /\ flow = "core"
  /\ bpc = "idle"
  /\ input_data = NoData
  /\ resume_data = NoData
  /\ prompts = {}
  /\ sanitize_calls = 0
  /\ theme_idx = 1
  /\ documents = <<>>
  /\ hows = {}
  /\ build_error = "none"

\* no build_resume call with a request is under way
PipelineIdle ==
  /\ caller = "direct"
  /\ request = AllGiven
  /\ ppc = "idle"
  /\ enhance_called = FALSE
  /\ failure = NoFailure
  /\ s3_uris = {}
  /\ printed = NoOutput

\* no upload_pdfs_to_s3 call is under way
UploadIdle ==
  /\ pdf_files = <<>>
  /\ on_disk = {}
  /\ upc = "idle"
  /\ file_idx = 1
  /\ s3_calls = <<>>
  /\ pdf_uris = {}
  /\ upload_ret = NoUploadResult

\* no interleaved runs are under way
InterleaveIdle ==
  /\ ipc = [p \in Persons |-> "idle"]
  /\ iidx = [p \in Persons |-> 1]
  /\ icode = [p \in Persons |-> 0]
  /\ iret = [p \in Persons |-> NoResult]
  /\ removed_yamls = [p \in Persons |-> {}]
  /\ removed_pdfs = [p \in Persons |-> {}]
  /\ yaml_dir = {}
  /\ output_dir = {}
  /\ theme_dir = [t \in ThemeSet |-> {}]

\* no document assembly is under way
DocumentIdle ==
  /\ doc_flow = "core"
  /\ doc_pc = "idle"
  /\ input_dict = NoInput
  /\ formatted_data = NoInput
  /\ cv_idx = 1
  /\ cv_datas = <<>>

\* none of the later specifications is under way
LaterIdle == InterleaveIdle /\ DocumentIdle

(***************************************************************************)
(* Actions of the render round                                             *)
(***************************************************************************)
\* the wall clock passes a second boundary.  The clock is read only by
\* build_resume (line 490) and by run_render_script (line 320), so a tick is
\* modelled between calls and between those two reads.
Tick ==
  /\ pc \in {"idle", "saved"}
  /\ clock < MaxClock
  /\ clock' = clock + 1
  /\ UNCHANGED <<svars, xvars, calls, pc, current_name, timestamp, yamls, pdfs,
                 folder, idx, returncode, rendered, removed, raised, ret>>

\* build_resume, lines 459-509, for person name: current_name is set, the
\* timestamp is taken, the four description files are saved and the script is
\* generated for (name, timestamp)
SaveYamls(name) ==
  /\ pc = "idle"
  /\ calls < MaxCalls
  /\ calls' = calls + 1
  /\ current_name' = name
  /\ timestamp' = clock
  /\ yamls' = yamls \cup SavedYamls(name, clock)
  /\ rendered' = <<>>
  /\ ret' = NoResult
  /\ raised' = FALSE
  /\ pc' = "saved"
  /\ UNCHANGED <<svars, xvars, clock, pdfs, folder, idx, returncode, removed>>

\* run_render_script, lines 317-340: a new timestamp is taken, every .yaml
\* file outside current_yamls is removed, and so is every PDF directly in the
\* output directory (the theme folders are not looked into)
Housekeeping ==
  /\ pc = "saved"
  /\ removed' = RemovedYamls(yamls, current_name, clock)
  /\ yamls' = yamls \ removed'
  /\ pdfs' = {}
  /\ idx' = 1
  /\ pc' = "script"
  /\ UNCHANGED <<svars, xvars, clock, calls, current_name, timestamp, folder,
                 returncode, rendered, raised, ret>>

\* run_render_script, lines 317-328 and 363-364: os.listdir raises e before
\* anything is removed; the except clause turns it into a returned failure
HousekeepingRaises(e) ==
  /\ pc = "saved"
  /\ removed' = {}
  /\ IF Caught(e)
       THEN ret' = ExceptionResult /\ raised' = FALSE
       ELSE ret' = NoResult /\ raised' = TRUE
  /\ pc' = "returned"
  /\ UNCHANGED <<svars, xvars, clock, calls, current_name, timestamp, yamls,
                 pdfs, folder, idx, returncode, rendered>>

\* script lines 279-283: the theme's description file is missing, the loop
\* continues with the next theme without calling the renderer
SkipTheme ==
  /\ pc = "script"
  /\ idx <= Len(Themes)
  /\ YamlFile(current_name, timestamp, Themes[idx]) \notin yamls
  /\ idx' = idx + 1
  /\ UNCHANGED <<svars, xvars, clock, calls, pc, current_name, timestamp, yamls,
                 pdfs, folder, returncode, rendered, removed, raised, ret>>

\* script lines 285-292 under `set -e`, for one theme and one outcome o of
\* the renderer: a non-zero exit status ends the script; otherwise the PDF
\* that find reports is moved to the output directory under the theme's
\* prefix and the theme folder is removed; no PDF leaves things as they are;
\* several PDFs make mv fail, which ends the script too
RenderTheme(o) ==
  LET t     == Themes[idx]
      after == AfterRender(folder[t], current_name, calls, o)
  IN /\ pc = "script"
     /\ idx <= Len(Themes)
     /\ YamlFile(current_name, timestamp, t) \in yamls
     /\ rendered' = Append(rendered, [theme |-> t, exit |-> o.exit,
                                      wrote |-> o.wrote])
     /\ IF o.exit # 0 \/ Cardinality(after) > 1
          THEN /\ folder' = [folder EXCEPT ![t] = after]
               /\ returncode' = 1
               /\ pc' = "exited"
               /\ UNCHANGED <<pdfs, idx>>
          ELSE /\ pdfs' = pdfs \cup {[theme |-> t, name |-> f.name,
                                      madeBy |-> f.madeBy] : f \in after}
               /\ folder' = [folder EXCEPT ![t] = {}]
               /\ idx' = NextTheme(idx, after # {})
               /\ UNCHANGED <<returncode, pc>>
     /\ UNCHANGED <<svars, xvars, clock, calls, current_name, timestamp, yamls,
                    removed, raised, ret>>

\* the for loop is over: the script ends with status 0
ScriptEnds ==
  /\ pc = "script"
  /\ idx > Len(Themes)
  /\ returncode' = 0
  /\ pc' = "exited"
  /\ UNCHANGED <<svars, xvars, clock, calls, current_name, timestamp, yamls,
                 pdfs, folder, idx, rendered, removed, raised, ret>>

\* run_render_script, lines 351-361: the PDFs in the output directory are
\* listed and counted
Reconcile ==
  /\ pc = "exited"
  /\ ret' = RenderResult(returncode, pdfs)
  /\ pc' = "returned"
  /\ UNCHANGED <<svars, xvars, clock, calls, current_name, timestamp, yamls,
                 pdfs, folder, idx, returncode, rendered, removed, raised>>

\* build_resume, lines 512-531: the call ends (by a return or by raising)
BuildEnds ==
  /\ pc = "returned"
  /\ pc' = "idle"
  /\ UNCHANGED <<svars, xvars, clock, calls, current_name, timestamp, yamls,
                 pdfs, folder, idx, returncode, rendered, removed, raised, ret>>

Init ==
  /\ SanitizerIdle /\ RenderIdle /\ EnhanceIdle
  /\ EscapeIdle /\ BuildIdle /\ UploadIdle /\ PipelineIdle
  /\ LaterIdle

Next ==
  \/ Tick
  \/ \E name \in Persons : SaveYamls(name)
  \/ Housekeeping
  \/ \E e \in OSErrors : HousekeepingRaises(e)
  \/ SkipTheme
  \/ \E o \in RendererOutcomes : RenderTheme(o)
  \/ ScriptEnds
  \/ Reconcile
  \/ BuildEnds

Spec == Init /\ [][Next]_vars

(***************************************************************************)
(* The sanitizer applied to every text of the bounded alphabet             *)
(***************************************************************************)
InitClean ==
  /\ text \in Texts
  /\ result = <<>>
  /\ result2 = <<>>
  /\ phase = "input"
  /\ RenderIdle
  /\ EnhanceIdle
  /\ EscapeIdle /\ BuildIdle /\ UploadIdle /\ PipelineIdle
  /\ LaterIdle

\* clean_bullet_points(text)
Clean ==
  /\ phase = "input"
  /\ result' = clean_bullet_points(text)
  /\ phase' = "cleaned"
  /\ UNCHANGED <<text, result2, rvars, xvars>>

\* a second pass over the result of the first
CleanAgain ==
  /\ phase = "cleaned"
  /\ result2' = clean_bullet_points(result)
  /\ phase' = "recleaned"
  /\ UNCHANGED <<text, result, rvars, xvars>>

NextClean == Clean \/ CleanAgain

SpecClean == InitClean /\ [][NextClean]_vars

(***************************************************************************)
(* generate_enhanced_experience / _bio / _activity, one call per kind      *)
(***************************************************************************)
InitEnhance ==
  /\ kind \in Kinds
  /\ epc = "start"
  /\ reply = NoReply
  /\ generated = <<>>
  /\ parsed = <<>>
  /\ propagated = "none"
  /\ SanitizerIdle
  /\ RenderIdle
  /\ EscapeIdle /\ BuildIdle /\ UploadIdle /\ PipelineIdle
  /\ LaterIdle

\* create_prompt: get_rag_data_from_pdf creates its S3 client at line 8,
\* before the loop that has the try block, so an exception of boto3.client
\* leaves the function; a failure to fetch or read a PDF is caught per key
\* and only changes the opaque reference text
RagClient(o) ==
  /\ epc = "start"
  /\ IF o = "raises"
       THEN propagated' = "get_rag_data_from_pdf" /\ epc' = "raised"
       ELSE propagated' = propagated /\ epc' = "prompt"
  /\ UNCHANGED <<kind, reply, generated, parsed,
                 keepE>>

\* generate_experience line 125 (generate_bio 202, generate_activity 281):
\* the bedrock client is created before the try block
GatewayClient(o) ==
  /\ epc = "prompt"
  /\ IF o = "raises"
       THEN propagated' = "generate" /\ epc' = "raised"
       ELSE propagated' = propagated /\ epc' = "client"
  /\ UNCHANGED <<kind, reply, generated, parsed,
                 keepE>>

\* generate_experience lines 126-150: the request and the decoding of the
\* reply r inside the try block
InvokeModel(r) ==
  /\ epc = "client"
  /\ reply' = r
  /\ generated' = GenerateInTry(r)
  /\ epc' = "generated"
  /\ UNCHANGED <<kind, parsed, propagated,
                 keepE>>

\* generate_enhanced_<kind>: the generated text is parsed
ParseReply ==
  /\ epc = "generated"
  /\ parsed' = Parse(kind, generated)
  /\ epc' = "parsed"
  /\ UNCHANGED <<kind, reply, generated, propagated,
                 keepE>>

NextEnhance ==
  \/ \E o \in ClientOutcomes : RagClient(o)
  \/ \E o \in ClientOutcomes : GatewayClient(o)
  \/ \E r \in Replies(kind) : InvokeModel(r)
  \/ ParseReply

SpecEnhance == InitEnhance /\ [][NextEnhance]_vars

(***************************************************************************)
(* sanitize_resume_data applied to a string, and to its own result         *)
(***************************************************************************)
InitEscape ==
  /\ data \in EscapeTexts
  /\ once = <<>>
  /\ twice = <<>>
  /\ passes = 0
  /\ SanitizerIdle /\ RenderIdle /\ EnhanceIdle /\ BuildIdle /\ UploadIdle
  /\ PipelineIdle
  /\ LaterIdle

Sanitize ==
  /\ passes = 0
  /\ once' = sanitize_str(data)
  /\ passes' = 1
  /\ UNCHANGED <<data, twice, keepZ>>

SanitizeAgain ==
  /\ passes = 1
  /\ twice' = sanitize_str(once)
  /\ passes' = 2
  /\ UNCHANGED <<data, once, keepZ>>

NextEscape == Sanitize \/ SanitizeAgain

SpecEscape == InitEscape /\ [][NextEscape]_vars

(***************************************************************************)
(* A generation run: build_resume lines 466-503 (flow "core") and          *)
(* app.py's main lines 806-833 (flow "app")                                *)
(***************************************************************************)
\* main runs only with a bio and an experience entry (app.py line 798), and
\* enhances no bio before its sanitize pass
InitBuild ==
  /\ flow \in {"core", "app"}
  /\ input_data \in BuildInputs
  /\ flow = "app" => input_data.bio # <<>> /\ input_data.experience # <<>>
  /\ bpc = IF flow = "core" THEN "bio" ELSE "experience"
  /\ resume_data = NoData
  /\ prompts = {}
  /\ sanitize_calls = 0
  /\ theme_idx = 1
  /\ documents = <<>>
  /\ hows = {}
  /\ build_error = "none"
  /\ SanitizerIdle /\ RenderIdle /\ EnhanceIdle /\ EscapeIdle /\ UploadIdle
  /\ PipelineIdle
  /\ LaterIdle

\* build_resume lines 467-468; an exception is wrapped at lines 530-531
EnhanceBio ==
  /\ flow = "core" /\ bpc = "bio"
  /\ input_data.bio # <<>>
  /\ \E o \in BioOutcomes :
       /\ prompts' = prompts \cup
            {[kind |-> "bio", text |-> input_data.bio,
              passes |-> sanitize_calls]}
       /\ hows' = hows \cup {o.how}
       /\ IF o.how = "raises"
            THEN /\ bpc' = "failed"
                 /\ build_error' = "Resume building failed"
                 /\ UNCHANGED input_data
            ELSE /\ bpc' = "experience"
                 /\ input_data' = [input_data EXCEPT !.bio = o.text]
                 /\ UNCHANGED build_error
       /\ UNCHANGED <<flow, resume_data, sanitize_calls, theme_idx, documents,
                      keepB>>

\* build_resume line 467 with no bio
NoBio ==
  /\ flow = "core" /\ bpc = "bio"
  /\ input_data.bio = <<>>
  /\ bpc' = "experience"
  /\ UNCHANGED <<flow, input_data, resume_data, prompts, sanitize_calls,
                 theme_idx, documents, hows, build_error,
                 keepB>>

\* build_resume lines 470-476
EnhanceExperience ==
  /\ flow = "core" /\ bpc = "experience"
  /\ \E os \in
       [1..Len(input_data.experience) -> ExperienceOutcomes] :
       /\ prompts' = prompts \cup
            EntryPrompts("experience", DescriptionTexts(input_data.experience),
                         Reached(input_data.experience, os), sanitize_calls)
       /\ hows' = hows \cup
            {os[i].how : i \in Reached(input_data.experience, os)}
       /\ input_data' =
            [input_data EXCEPT
               !.experience = EnhancedEntries(input_data.experience, os)]
       /\ IF FirstRaise(input_data.experience, os) # 0
            THEN bpc' = "failed" /\ build_error' = "Resume building failed"
            ELSE bpc' = "activities" /\ UNCHANGED build_error
       /\ UNCHANGED <<flow, resume_data, sanitize_calls, theme_idx, documents,
                      keepB>>

\* build_resume lines 478-484
EnhanceActivities ==
  /\ flow = "core" /\ bpc = "activities"
  /\ \E os \in
       [1..Len(input_data.activities) -> ActivityOutcomes] :
       /\ prompts' = prompts \cup
            EntryPrompts("activity", DescriptionTexts(input_data.activities),
                         Reached(input_data.activities, os), sanitize_calls)
       /\ hows' = hows \cup
            {os[i].how : i \in Reached(input_data.activities, os)}
       /\ input_data' =
            [input_data EXCEPT
               !.activities = EnhancedEntries(input_data.activities, os)]
       /\ IF FirstRaise(input_data.activities, os) # 0
            THEN bpc' = "failed" /\ build_error' = "Resume building failed"
            ELSE bpc' = "sanitize" /\ UNCHANGED build_error
       /\ UNCHANGED <<flow, resume_data, sanitize_calls, theme_idx, documents,
                      keepB>>

\* build_resume line 487
SanitizeData ==
  /\ flow = "core" /\ bpc = "sanitize"
  /\ resume_data' = sanitize_resume_data(input_data)
  /\ sanitize_calls' = sanitize_calls + 1
  /\ bpc' = "yaml"
  /\ UNCHANGED <<flow, input_data, prompts, theme_idx, documents, hows,
                 build_error, keepB>>

\* build_resume lines 493-503, one theme; after the last theme the run goes
\* on to create_render_script
SaveYaml ==
  /\ flow = "core" /\ bpc = "yaml"
  /\ documents' =
       Append(documents, generate_resume_yaml(resume_data, Themes[theme_idx]))
  /\ IF theme_idx = Len(Themes)
       THEN bpc' = "render" /\ UNCHANGED theme_idx
       ELSE theme_idx' = theme_idx + 1 /\ UNCHANGED bpc
  /\ UNCHANGED <<flow, input_data, resume_data, prompts, sanitize_calls,
                 hows, build_error, keepB>>

\* app.py line 820, enhance_experience_descriptions; an exception is shown
\* by the handler at line 859
AppEnhanceExperience ==
  /\ flow = "app" /\ bpc = "experience"
  /\ \E os \in
       [1..Len(input_data.experience) -> ExperienceOutcomes] :
       /\ prompts' = prompts \cup
            EntryPrompts("experience",
                         AppDescriptionTexts(input_data.experience),
                         Reached(input_data.experience, os), sanitize_calls)
       /\ hows' = hows \cup
            {os[i].how : i \in Reached(input_data.experience, os)}
       /\ IF FirstRaise(input_data.experience, os) # 0
            THEN /\ bpc' = "failed"
                 /\ build_error' = "An error occurred during resume generation"
                 /\ UNCHANGED input_data
            ELSE /\ bpc' = "activities"
                 /\ input_data' =
                      [input_data EXCEPT
                         !.experience =
                            AppEnhancedEntries(input_data.experience, os)]
                 /\ UNCHANGED build_error
       /\ UNCHANGED <<flow, resume_data, sanitize_calls, theme_idx, documents,
                      keepB>>

\* app.py line 821, enhance_activity_descriptions
AppEnhanceActivities ==
  /\ flow = "app" /\ bpc = "activities"
  /\ \E os \in
       [1..Len(input_data.activities) -> ActivityOutcomes] :
       /\ prompts' = prompts \cup
            EntryPrompts("activity", AppDescriptionTexts(input_data.activities),
                         Reached(input_data.activities, os), sanitize_calls)
       /\ hows' = hows \cup
            {os[i].how : i \in Reached(input_data.activities, os)}
       /\ IF FirstRaise(input_data.activities, os) # 0
            THEN /\ bpc' = "failed"
                 /\ build_error' = "An error occurred during resume generation"
                 /\ UNCHANGED input_data
            ELSE /\ bpc' = "sanitize"
                 /\ input_data' =
                      [input_data EXCEPT
                         !.activities =
                            AppEnhancedEntries(input_data.activities, os)]
                 /\ UNCHANGED build_error
       /\ UNCHANGED <<flow, resume_data, sanitize_calls, theme_idx, documents,
                      keepB>>

\* app.py line 825
AppSanitizeData ==
  /\ flow = "app" /\ bpc = "sanitize"
  /\ resume_data' = sanitize_resume_data(input_data)
  /\ sanitize_calls' = sanitize_calls + 1
  /\ bpc' = "yaml"
  /\ UNCHANGED <<flow, input_data, prompts, theme_idx, documents, hows,
                 build_error, keepB>>

\* app.py lines 830-833, one theme: generate_resume_yaml enhances the bio of
\* the sanitized data at line 178 and puts the result in the summary
AppSaveYaml ==
  /\ flow = "app" /\ bpc = "yaml"
  /\ resume_data.bio # <<>>
  /\ \E o \in BioOutcomes :
       /\ prompts' = prompts \cup
            {[kind |-> "bio", text |-> resume_data.bio,
              passes |-> sanitize_calls]}
       /\ hows' = hows \cup {o.how}
       /\ IF o.how = "raises"
            THEN /\ bpc' = "failed"
                 /\ build_error' = "An error occurred during resume generation"
                 /\ UNCHANGED <<documents, theme_idx>>
            ELSE /\ documents' =
                      Append(documents,
                             app_generate_resume_yaml(
                               resume_data, AppThemes[theme_idx], o.text))
                 /\ IF theme_idx = Len(AppThemes)
                      THEN bpc' = "render" /\ UNCHANGED theme_idx
                      ELSE theme_idx' = theme_idx + 1 /\ UNCHANGED bpc
                 /\ UNCHANGED build_error
       /\ UNCHANGED <<flow, input_data, resume_data, sanitize_calls,
                      keepB>>

NextBuild ==
  \/ EnhanceBio
  \/ NoBio
  \/ EnhanceExperience
  \/ EnhanceActivities
  \/ SanitizeData
  \/ SaveYaml
  \/ AppEnhanceExperience
  \/ AppEnhanceActivities
  \/ AppSanitizeData
  \/ AppSaveYaml

SpecBuild == InitBuild /\ [][NextBuild]_vars

(***************************************************************************)
(* upload_pdfs_to_s3, one call                                             *)
(***************************************************************************)
InitUpload ==
  /\ pdf_files \in PdfLists
  /\ on_disk \in SUBSET PdfNames
  /\ upc = "start"
  /\ file_idx = 1
  /\ s3_calls = <<>>
  /\ pdf_uris = {}
  /\ upload_ret = NoUploadResult
  /\ SanitizerIdle /\ RenderIdle /\ EnhanceIdle /\ EscapeIdle /\ BuildIdle
  /\ PipelineIdle
  /\ LaterIdle

\* lines 388-392
UploadBegin(o) ==
  /\ upc = "start"
  /\ s3_calls' = BeginUpload(pdf_files, o).calls
  /\ upc' = BeginUpload(pdf_files, o).upc
  /\ upload_ret' = BeginUpload(pdf_files, o).ret
  /\ UNCHANGED <<pdf_files, on_disk, file_idx, pdf_uris,
                 keepU>>

\* lines 407-409: a file that is not in the directory is skipped
FileNotFound ==
  /\ upc = "loop" /\ file_idx <= Len(pdf_files)
  /\ pdf_files[file_idx] \notin on_disk
  /\ file_idx' = file_idx + 1
  /\ UNCHANGED <<pdf_files, on_disk, upc, s3_calls, pdf_uris, upload_ret,
                 keepU>>

\* lines 411-438 and 445-446: the upload of one file; the inner handler
\* catches a ClientError and goes on, any other exception reaches the outer
\* handler, which returns
UploadFile(o) ==
  /\ upc = "loop" /\ file_idx <= Len(pdf_files)
  /\ pdf_files[file_idx] \in on_disk
  /\ s3_calls' = Append(s3_calls, pdf_files[file_idx])
  /\ CASE o = "ok" ->
            /\ pdf_uris' = pdf_uris \cup {pdf_files[file_idx]}
            /\ file_idx' = file_idx + 1
            /\ UNCHANGED <<upc, upload_ret>>
       [] o = "ClientError" ->
            /\ file_idx' = file_idx + 1
            /\ UNCHANGED <<pdf_uris, upc, upload_ret>>
       [] o = "S3UploadFailedError" ->
            /\ upc' = "returned"
            /\ upload_ret' = UnexpectedResult
            /\ UNCHANGED <<pdf_uris, file_idx>>
  /\ UNCHANGED <<pdf_files, on_disk, keepU>>

\* lines 440-443
UploadFinish ==
  /\ upc = "loop" /\ file_idx > Len(pdf_files)
  /\ upc' = "returned"
  /\ upload_ret' =
       IF pdf_uris = {} THEN NoneUploadedResult ELSE UploadedResult(pdf_uris)
  /\ UNCHANGED <<pdf_files, on_disk, file_idx, s3_calls, pdf_uris,
                 keepU>>

NextUpload ==
  \/ \E o \in ClientOutcomes : UploadBegin(o)
  \/ FileNotFound
  \/ \E o \in UploadOutcomes : UploadFile(o)
  \/ UploadFinish

SpecUpload == InitUpload /\ [][NextUpload]_vars

(***************************************************************************)
(* One build_resume call from its first line to what its caller gets       *)
(***************************************************************************)
InitPipeline ==
  /\ caller \in {"main", "direct"}
  /\ request \in IF caller = "main" THEN MainRequests ELSE Requests
  /\ ppc = "start"
  /\ enhance_called = FALSE
  /\ failure = NoFailure
  /\ s3_uris = {}
  /\ printed = NoOutput
  /\ SanitizerIdle /\ RenderIdle /\ EnhanceIdle
  /\ EscapeIdle /\ BuildIdle /\ UploadIdle
  /\ LaterIdle

\* lines 459-464: input_data["personal_info"]["name"] and ["phone"] are
\* read; a missing key is a KeyError
ReadPersonalInfo ==
  /\ ppc = "start"
  /\ IF request.name = "missing"
       THEN /\ failure' = Wrap(Cause("KeyError name", NoMsg, ""))
            /\ ppc' = "raised"
       ELSE IF request.phone = "missing"
         THEN /\ failure' = Wrap(Cause("KeyError phone", NoMsg, ""))
              /\ ppc' = "raised"
       ELSE /\ ppc' = "enhance"
            /\ UNCHANGED failure
  /\ UNCHANGED <<caller, request, enhance_called, s3_uris, printed,
                 keepP>>

\* lines 467-484: the enhancement calls; an exception of boto3.client
\* leaves them, every other failure gives the empty text
EnhanceFields(o) ==
  /\ ppc = "enhance"
  /\ EnhancementDue(request)
  /\ enhance_called' = TRUE
  /\ IF o = "raises"
       THEN /\ failure' = Wrap(Cause("enhancement", NoMsg, ""))
            /\ ppc' = "raised"
       ELSE /\ ppc' = "assemble"
            /\ UNCHANGED failure
  /\ UNCHANGED <<caller, request, s3_uris, printed,
                 keepP>>

\* lines 467-484 with nothing to enhance
NothingToEnhance ==
  /\ ppc = "enhance"
  /\ ~EnhancementDue(request)
  /\ ppc' = "assemble"
  /\ UNCHANGED <<caller, request, enhance_called, failure, s3_uris, printed,
                 keepP>>

\* lines 487-509: the timestamp is taken, generate_resume_yaml reads
\* personal_info["email"] (a KeyError when the key is missing), the four
\* description files are saved and the script is written
AssembleAndSave ==
  /\ ppc = "assemble"
  /\ IF request.email = "missing"
       THEN /\ failure' = Wrap(Cause("KeyError email", NoMsg, ""))
            /\ ppc' = "raised"
            /\ UNCHANGED <<calls, current_name, timestamp, yamls, rendered,
                           ret, raised, pc>>
       ELSE /\ calls' = calls + 1
            /\ current_name' = PersonOf(request)
            /\ timestamp' = clock
            /\ yamls' = yamls \cup SavedYamls(PersonOf(request), clock)
            /\ rendered' = <<>>
            /\ ret' = NoResult
            /\ raised' = FALSE
            /\ pc' = "saved"
            /\ ppc' = "render"
            /\ UNCHANGED failure
  /\ UNCHANGED <<caller, request, enhance_called, s3_uris, printed,
                 clock, pdfs, folder, idx, returncode, removed,
                 svars, evars, zvars, bvars, uvars, nvars>>

\* lines 510-513: run_render_script has returned without success
RenderFailed ==
  /\ ppc = "render" /\ pc = "returned"
  /\ ~ret.success
  /\ failure' = Wrap(Cause("PDF generation failed", ret.msg, ""))
  /\ ppc' = "raised"
  /\ pc' = "idle"
  /\ UNCHANGED <<caller, request, enhance_called, s3_uris, printed,
                 clock, calls, current_name, timestamp, yamls, pdfs, folder,
                 idx, returncode, rendered, removed, raised, ret,
                 svars, evars, zvars, bvars, uvars, nvars>>

\* lines 510-523: run_render_script has returned with success, and
\* upload_pdfs_to_s3 is called with new_pdfs in the order of the listing
StartUpload ==
  /\ ppc = "render" /\ pc = "returned"
  /\ ret.success
  /\ \E l \in Listings(ret.new_pdfs) : pdf_files' = l
  /\ on_disk' = pdfs
  /\ upc' = "start"
  /\ file_idx' = 1
  /\ s3_calls' = <<>>
  /\ pdf_uris' = {}
  /\ upload_ret' = NoUploadResult
  /\ ppc' = "upload"
  /\ pc' = "idle"
  /\ UNCHANGED <<caller, request, enhance_called, failure, s3_uris, printed,
                 clock, calls, current_name, timestamp, yamls, pdfs, folder,
                 idx, returncode, rendered, removed, raised, ret,
                 svars, evars, zvars, bvars, nvars>>

\* lines 525-531: upload_pdfs_to_s3 has returned
BuildReturns ==
  /\ ppc = "upload" /\ upc = "returned"
  /\ failure' = BuildOutcome(upload_ret).failure
  /\ s3_uris' = BuildOutcome(upload_ret).uris
  /\ ppc' = BuildOutcome(upload_ret).ppc
  /\ UNCHANGED <<caller, request, enhance_called, printed,
                 keepP>>

\* main lines 543-547: what main prints for its caller
MainPrints ==
  /\ caller = "main"
  /\ ppc \in {"returned", "raised"}
  /\ printed' =
       IF failure.raised
         THEN [key |-> "error", uris |-> {}, error |-> failure, exit |-> 1]
         ELSE [key |-> "s3_uris", uris |-> s3_uris, error |-> NoFailure,
               exit |-> 0]
  /\ ppc' = "printed"
  /\ UNCHANGED <<caller, request, enhance_called, failure, s3_uris,
                 keepP>>

\* the files given to upload_pdfs_to_s3 were listed in the output directory
\* just before (line 355), so the branch of a missing file is not taken
NextPipeline ==
  \/ ReadPersonalInfo
  \/ \E o \in ClientOutcomes : EnhanceFields(o)
  \/ NothingToEnhance
  \/ AssembleAndSave
  \/ Tick
  \/ Housekeeping
  \/ \E e \in OSErrors : HousekeepingRaises(e)
  \/ SkipTheme
  \/ \E o \in RendererOutcomes : RenderTheme(o)
  \/ ScriptEnds
  \/ Reconcile
  \/ RenderFailed
  \/ StartUpload
  \/ \E o \in ClientOutcomes : UploadBegin(o)
  \/ \E o \in UploadOutcomes : UploadFile(o)
  \/ UploadFinish
  \/ BuildReturns
  \/ MainPrints

SpecPipeline == InitPipeline /\ [][NextPipeline]_vars

(***************************************************************************)
(* Two interleaved runs, one for each person, on the shared directories:   *)
(* build_resume lines 493-510, the generated script, run_render_script.    *)
(* The renderer succeeds for every theme, and the clock passes no second   *)
(* boundary, so that no run loses its files by itself.                     *)
(***************************************************************************)
InitInterleave ==
  /\ ipc = [p \in Persons |-> "idle"]
  /\ iidx = [p \in Persons |-> 1]
  /\ icode = [p \in Persons |-> 0]
  /\ iret = [p \in Persons |-> NoResult]
  /\ removed_yamls = [p \in Persons |-> {}]
  /\ removed_pdfs = [p \in Persons |-> {}]
  /\ yaml_dir = {}
  /\ output_dir = {}
  /\ theme_dir = [t \in ThemeSet |-> {}]
  /\ SanitizerIdle /\ RenderIdle /\ EnhanceIdle
  /\ EscapeIdle /\ BuildIdle /\ UploadIdle /\ PipelineIdle
  /\ DocumentIdle

\* build_resume lines 493-509 of the run for p
ISave(p) ==
  /\ ipc[p] = "idle"
  /\ yaml_dir' = yaml_dir \cup SavedYamls(p, 0)
  /\ ipc' = [ipc EXCEPT ![p] = "saved"]
  /\ UNCHANGED <<iidx, icode, iret, removed_yamls, removed_pdfs, output_dir,
                 theme_dir, keepI>>

\* run_render_script lines 317-340 of the run for p
IHousekeeping(p) ==
  /\ ipc[p] = "saved"
  /\ removed_yamls' =
       [removed_yamls EXCEPT ![p] = RemovedYamls(yaml_dir, p, 0)]
  /\ yaml_dir' = yaml_dir \ RemovedYamls(yaml_dir, p, 0)
  /\ removed_pdfs' = [removed_pdfs EXCEPT ![p] = output_dir]
  /\ output_dir' = {}
  /\ iidx' = [iidx EXCEPT ![p] = 1]
  /\ ipc' = [ipc EXCEPT ![p] = "script"]
  /\ UNCHANGED <<icode, iret, theme_dir, keepI>>

\* script lines 279-283 of the run for p
ISkipTheme(p) ==
  /\ ipc[p] = "script"
  /\ iidx[p] <= Len(Themes)
  /\ YamlFile(p, 0, Themes[iidx[p]]) \notin yaml_dir
  /\ iidx' = [iidx EXCEPT ![p] = iidx[p] + 1]
  /\ UNCHANGED <<ipc, icode, iret, removed_yamls, removed_pdfs, yaml_dir,
                 output_dir, theme_dir, keepI>>

\* script lines 285-286 of the run for p: the renderer writes p's PDF into
\* the theme folder, which both runs use
IRender(p) ==
  /\ ipc[p] = "script"
  /\ iidx[p] <= Len(Themes)
  /\ YamlFile(p, 0, Themes[iidx[p]]) \in yaml_dir
  /\ theme_dir' =
       [theme_dir EXCEPT
          ![Themes[iidx[p]]] =
             AfterRender(theme_dir[Themes[iidx[p]]], p, p,
                         [exit |-> 0, wrote |-> TRUE])]
  /\ ipc' = [ipc EXCEPT ![p] = "rendered"]
  /\ UNCHANGED <<iidx, icode, iret, removed_yamls, removed_pdfs, yaml_dir,
                 output_dir, keepI>>

\* script lines 288-292 of the run for p: find, mv and rm -r; with several
\* PDFs in the theme folder find prints several paths, mv is given them as
\* one name, fails, and `set -e` ends the script
IMove(p) ==
  LET t == Themes[iidx[p]]
  IN /\ ipc[p] = "rendered"
     /\ IF Cardinality(theme_dir[t]) > 1
          THEN /\ icode' = [icode EXCEPT ![p] = 1]
               /\ ipc' = [ipc EXCEPT ![p] = "exited"]
               /\ UNCHANGED <<iidx, output_dir, theme_dir>>
          ELSE /\ output_dir' =
                    output_dir \cup
                    {[theme |-> t, name |-> f.name, madeBy |-> f.madeBy] :
                       f \in theme_dir[t]}
               /\ theme_dir' = [theme_dir EXCEPT ![t] = {}]
               /\ iidx' = [iidx EXCEPT ![p] = iidx[p] + 1]
               /\ ipc' = [ipc EXCEPT ![p] = "script"]
               /\ UNCHANGED icode
     /\ UNCHANGED <<iret, removed_yamls, removed_pdfs, yaml_dir, keepI>>

\* the for loop of p's script is over
IScriptEnds(p) ==
  /\ ipc[p] = "script"
  /\ iidx[p] > Len(Themes)
  /\ icode' = [icode EXCEPT ![p] = 0]
  /\ ipc' = [ipc EXCEPT ![p] = "exited"]
  /\ UNCHANGED <<iidx, iret, removed_yamls, removed_pdfs, yaml_dir,
                 output_dir, theme_dir, keepI>>

\* run_render_script lines 351-361 of the run for p
IReconcile(p) ==
  /\ ipc[p] = "exited"
  /\ iret' = [iret EXCEPT ![p] = RenderResult(icode[p], output_dir)]
  /\ ipc' = [ipc EXCEPT ![p] = "returned"]
  /\ UNCHANGED <<iidx, icode, removed_yamls, removed_pdfs, yaml_dir,
                 output_dir, theme_dir, keepI>>

NextInterleave ==
  \/ \E p \in Persons : ISave(p)
  \/ \E p \in Persons : IHousekeeping(p)
  \/ \E p \in Persons : ISkipTheme(p)
  \/ \E p \in Persons : IRender(p)
  \/ \E p \in Persons : IMove(p)
  \/ \E p \in Persons : IScriptEnds(p)
  \/ \E p \in Persons : IReconcile(p)

SpecInterleave == InitInterleave /\ [][NextInterleave]_vars

(***************************************************************************)
(* Document assembly: from the input to the four cv_data of a run, in      *)
(* main of the core, in a direct build_resume call and in app.py.  The     *)
(* enhancement calls between the steps (SpecBuild) do not touch the        *)
(* fields followed here.                                                   *)
(***************************************************************************)
InitDocument ==
  /\ doc_flow \in {"main", "core", "app"}
  /\ input_dict \in CASE doc_flow = "main" -> MainInputs
                      [] doc_flow = "core" -> CoreInputs
                      [] doc_flow = "app" -> AppInputs
  /\ doc_pc = CASE doc_flow = "main" -> "input"
                [] doc_flow = "core" -> "call"
                [] doc_flow = "app" -> "form"
  /\ formatted_data = IF doc_flow = "main" THEN NoInput ELSE input_dict
  /\ cv_idx = 1
  /\ cv_datas = <<>>
  /\ SanitizerIdle /\ RenderIdle /\ EnhanceIdle
  /\ EscapeIdle /\ BuildIdle /\ UploadIdle /\ PipelineIdle
  /\ InterleaveIdle

\* main line 541: format_input_data
FormatInput ==
  /\ doc_pc = "input"
  /\ formatted_data' = format_input_data(input_dict)
  /\ doc_pc' = "call"
  /\ UNCHANGED <<doc_flow, input_dict, cv_idx, cv_datas, keepD>>

\* build_resume lines 461-464: the phone number is formatted
FormatPhone ==
  /\ doc_pc = "call"
  /\ formatted_data' =
       [formatted_data EXCEPT !.phone = format_phone_number(@)]
  /\ doc_pc' = "formatted"
  /\ UNCHANGED <<doc_flow, input_dict, cv_idx, cv_datas, keepD>>

\* build_resume line 487: sanitize_resume_data
SanitizeFields ==
  /\ doc_pc = "formatted"
  /\ formatted_data' = sanitize_fields(formatted_data)
  /\ doc_pc' = "assemble"
  /\ UNCHANGED <<doc_flow, input_dict, cv_idx, cv_datas, keepD>>

\* build_resume lines 496-497: generate_resume_yaml for the next theme
AssembleDocument ==
  /\ doc_pc = "assemble"
  /\ cv_idx <= Len(Themes)
  /\ cv_datas' = Append(cv_datas, cv_data(formatted_data, Themes[cv_idx]))
  /\ cv_idx' = cv_idx + 1
  /\ UNCHANGED <<doc_flow, doc_pc, input_dict, formatted_data, keepD>>

\* app.py line 825: sanitize_resume_data
AppSanitizeFields ==
  /\ doc_pc = "form"
  /\ formatted_data' = app_sanitize_fields(formatted_data)
  /\ doc_pc' = "app_assemble"
  /\ UNCHANGED <<doc_flow, input_dict, cv_idx, cv_datas, keepD>>

\* app.py lines 830-831: generate_resume_yaml for the next theme
AppAssembleDocument ==
  /\ doc_pc = "app_assemble"
  /\ cv_idx <= Len(AppThemes)
  /\ cv_datas' =
       Append(cv_datas, app_cv_data(formatted_data, AppThemes[cv_idx]))
  /\ cv_idx' = cv_idx + 1
  /\ UNCHANGED <<doc_flow, doc_pc, input_dict, formatted_data, keepD>>

NextDocument ==
  \/ FormatInput
  \/ FormatPhone
  \/ SanitizeFields
  \/ AssembleDocument
  \/ AppSanitizeFields
  \/ AppAssembleDocument

SpecDocument == InitDocument /\ [][NextDocument]_vars

(***************************************************************************)
(* Properties of the render round (specification Spec)                     *)
(***************************************************************************)
\* the themes the renderer was invoked for in this call, in order
AttemptedThemes == [i \in 1..Len(rendered) |-> rendered[i].theme]

\* the themes for which the renderer exited with status 0 and wrote a PDF
ProducedThemes ==
  {rendered[i].theme : i \in {j \in 1..Len(rendered) :
                                rendered[j].exit = 0 /\ rendered[j].wrote}}

\* run_render_script came back after its script was run
ScriptReturned == pc = "returned" /\ ret.msg.kind # "exception" /\ ~raised

DescriptionPresent(t) == YamlFile(current_name, timestamp, t) \in yamls

C3_Original ==
  pc = "script" => SavedYamls(current_name, timestamp) \subseteq yamls

C5_Original ==
  (pc = "returned" /\ ret.success)
    => /\ Cardinality(ret.new_pdfs) = 4
       /\ \A f \in ret.new_pdfs : f.madeBy = calls

(***************************************************************************)
(* Properties of the sanitizer (specification SpecClean)                   *)
(***************************************************************************)
\* the lines of an output text
OutputLines(s) == IF s = <<>> THEN <<>> ELSE SplitNL(s, 1, <<>>)

\* the bullet glyphs of the sanitizer's contract: U+2022, *, -, U+2023,
\* U+2043, U+25E6, U+2192, U+25AA, U+25CF, U+25A0
BulletSet ==
  {"u2022", "*", "-", "u2023", "u2043", "u25E6", "u2192", "u25AA", "u25CF",
   "u25A0"}

\* C6, as stated: a second pass of clean_bullet_points changes nothing.
C6_Original == phase = "recleaned" => result2 = result

\* C7, as stated: every non-empty line of the output ends with '.'.
C7_Original ==
  phase = "cleaned" =>
    \A i \in 1..Len(OutputLines(result)) :
      LET line == OutputLines(result)[i]
      IN line # <<>> => line[Len(line)] = "."

\* C8: no line of the output of clean_bullet_points starts, after optional
\* leading whitespace, with a glyph of the bullet set.
C8_NoLeadingBullet ==
  phase = "cleaned" =>
    \A i \in 1..Len(OutputLines(result)) :
      LET line == OutputLines(result)[i]
          g    == SkipClass(line, 1, Whitespace)
      IN g <= Len(line) => line[g] \notin BulletSet

\* C8 witness: a text that starts with a bullet glyph was cleaned to a
\* non-empty result
C8_Witness ==
  /\ phase = "cleaned"
  /\ text # <<>>
  /\ text[1] \in BulletSet
  /\ result # <<>>

\* C9, as stated: the output of clean_bullet_points has no blank line.
C9_Original ==
  phase = "cleaned" =>
    \A i \in 1..Len(OutputLines(result)) : Strip(OutputLines(result)[i]) # <<>>

\* the number of digits of a text
DigitCount(s) == Cardinality({i \in 1..Len(s) : s[i] \in Digits})

\* every line of the text starts with a letter, so that no ordinal is the
\* leading marker of a line
StartsLinesWithLetter(s) ==
  /\ s # <<>>
  /\ \A i \in 1..Len(s) : (i = 1 \/ s[i - 1] = "\n") => s[i] = "a"

\* C10, as stated: an ordinal that is not the leading marker of its line is
\* preserved, so a text whose lines all start with a letter keeps its digits.
C10_Original ==
  (phase = "cleaned" /\ StartsLinesWithLetter(text))
    => DigitCount(result) = DigitCount(text)

(***************************************************************************)
(* Properties of the parsers and the gateway (specification SpecEnhance)   *)
(***************************************************************************)
\* the lines of the raw response handed to the parser
RawLines == splitlines(generated)

\* line l is the marker line of the kind once its surrounding whitespace is
\* taken off
IsMarkerLine(l) == Strip(l) = <<Marker(kind)>>

\* the index of the first marker line of the raw response, 0 without one
FirstMarker ==
  IF \E i \in 1..Len(RawLines) : IsMarkerLine(RawLines[i])
    THEN CHOOSE i \in 1..Len(RawLines) :
           /\ IsMarkerLine(RawLines[i])
           /\ \A j \in 1..(i - 1) : ~IsMarkerLine(RawLines[j])
    ELSE 0

\* the lines that follow the first marker line
AfterMarker ==
  IF FirstMarker = 0 THEN <<>>
  ELSE SubSeq(RawLines, FirstMarker + 1, Len(RawLines))

\* sep.join(lines)
RECURSIVE JoinWith(_, _)
JoinWith(lines, sep) ==
  IF lines = <<>> THEN <<>>
  ELSE IF Len(lines) = 1 THEN lines[1]
  ELSE lines[1] \o <<sep>> \o JoinWith(Tail(lines), sep)

\* C11, as stated: when no line of the raw response equals the kind's
\* marker, the parser returns the empty string.
C11_Original ==
  (epc = "parsed"
     /\ \A i \in 1..Len(RawLines) : RawLines[i] # <<Marker(kind)>>)
    => parsed = <<>>

\* C11, amended: when no line of the raw response, once stripped of its
\* surrounding whitespace, equals the kind's marker, the parser returns the
\* empty string (and raises nothing).
C11_Amended ==
  (epc = "parsed" /\ FirstMarker = 0)
    => parsed = <<>> /\ propagated = "none"

\* C11 witness: a response with a bullet line and no marker line was parsed
C11_Witness ==
  /\ epc = "parsed"
  /\ FirstMarker = 0
  /\ \E i \in 1..Len(RawLines) : RawLines[i] = <<"-", " ", "a">>
  /\ parsed = <<>>

\* a bullet line: the "- " prefix followed by content that has a letter
IsBulletLine(l) ==
  /\ Len(l) >= 3
  /\ l[1] = "-"
  /\ l[2] = " "
  /\ \E i \in 3..Len(l) : l[i] \in {"a", "A"}

\* the response is a marker line of the kind (possibly after other lines)
\* followed by bullet lines only
MarkerThenBullets ==
  /\ FirstMarker # 0
  /\ \A i \in 1..Len(AfterMarker) : IsBulletLine(AfterMarker[i])

NotMarkerLine(l) == ~IsMarkerLine(l)

CollectedBlock == SelectSeq(AfterMarker, NotMarkerLine)

C14_Original ==
  /\ propagated # "generate"
  /\ (epc \in {"generated", "parsed"} /\ reply \in FailedReplies)
       => generated = <<>>

(***************************************************************************)
(* Claims about the escaping pass and the generation run                   *)
(***************************************************************************)
\* the positions of s that hold a dollar sign with no backslash before it
Unescaped(s) ==
  {i \in 1..Len(s) : s[i] = "$" /\ (i = 1 \/ s[i - 1] # "\\")}

DollarCount(s) == Cardinality({i \in 1..Len(s) : s[i] = "$"})

\* C15: for every string that holds a dollar sign, one pass of
\* sanitize_resume_data leaves every dollar sign, and no more than before,
\* behind a backslash, a string whose dollar signs are escaped already is
\* not escaped again, and a second pass over the result changes nothing
C15_Original ==
  (passes >= 1 /\ DollarCount(data) > 0) =>
    /\ Unescaped(once) = {}
    /\ DollarCount(once) = DollarCount(data)
    /\ Unescaped(data) = {} => once = data
    /\ passes = 2 => twice = once

\* the strings of a description file that come from prose fields
DocStrings(d) ==
  {d.summary[i] : i \in 1..Len(d.summary)} \cup
  UNION {{d.experience[e][i] : i \in 1..Len(d.experience[e])} :
           e \in 1..Len(d.experience)} \cup
  UNION {{d.activities[e][i] : i \in 1..Len(d.activities[e])} :
           e \in 1..Len(d.activities)}

\* C16: in every generation run the escaping pass is made exactly once
\* before the first description file is written, every text given to an
\* enhancement prompt is taken from data no pass was made over, and no string
\* of a description file holds an unescaped dollar sign
C16_Original ==
  /\ sanitize_calls <= 1
  /\ (bpc \in {"yaml", "render"} \/ documents # <<>>) => sanitize_calls = 1
  /\ \A p \in prompts : p.passes = 0
  /\ \A i \in 1..Len(documents) :
       \A t \in DocStrings(documents[i]) : Unescaped(t) = {}

\* an enhancement call of the run failed: an exception left it, or its
\* reply failed inside the gateway
EnhancementFailed == hows \cap {"raises", "failed"} # {}

\* C17: when an enhancement call of build_resume has failed, build_resume is
\* not ended by an exception, and it reaches create_render_script only with
\* the description files of all 4 themes written
C17_Original ==
  (flow = "core" /\ EnhancementFailed) =>
    /\ bpc # "failed"
    /\ build_error = "none"
    /\ bpc = "render" => Len(documents) = Len(Themes)

\* the highlights of a description file
Highlights(d) ==
  UNION {{d.experience[e][i] : i \in 1..Len(d.experience[e])} :
           e \in 1..Len(d.experience)} \cup
  UNION {{d.activities[e][i] : i \in 1..Len(d.activities[e])} :
           e \in 1..Len(d.activities)}

\* C18: every highlight of every description file written by a generation
\* run is a non-empty string with no whitespace at either end
C18_Original ==
  \A i \in 1..Len(documents) :
    \A h \in Highlights(documents[i]) : h # <<>> /\ Strip(h) = h

(***************************************************************************)
(* Claims about upload_pdfs_to_s3                                          *)
(***************************************************************************)
\* the files whose upload was tried
TriedFiles == {s3_calls[i] : i \in 2..Len(s3_calls)}

\* the storage client could not be created
ClientFailed == upload_ret = UnexpectedResult /\ s3_calls = <<"client">>

\* C19: once upload_pdfs_to_s3 has returned for a list that is not empty,
\* with its storage client created, the upload of every listed file present
\* in the directory was tried, every file that was uploaded is in the
\* returned mapping, and success is false only if no file was uploaded
C19_Original ==
  (upc = "returned" /\ pdf_files # <<>> /\ ~ClientFailed) =>
    /\ \A i \in 1..Len(pdf_files) :
         pdf_files[i] \in on_disk => pdf_files[i] \in TriedFiles
    /\ upload_ret.uris = pdf_uris
    /\ upload_ret.success = (pdf_uris # {})

\* C20: for the empty list upload_pdfs_to_s3 returns success false, an empty
\* mapping and a diagnostic that is not empty, and makes no storage call, the
\* creation of the client included
C20_EmptyList ==
  (upc = "returned" /\ pdf_files = <<>>) =>
    /\ upload_ret.success = FALSE
    /\ upload_ret.uris = {}
    /\ upload_ret.msg \notin {"", "none"}
    /\ s3_calls = <<>>

C20_Witness ==
  /\ upc = "returned"
  /\ pdf_files = <<>>
  /\ upload_ret = EmptyListResult
  /\ s3_calls = <<>>

\* the listed files
ListedFiles == {pdf_files[i] : i \in 1..Len(pdf_files)}

\* C21: once upload_pdfs_to_s3 has returned, if a listed file is not in the
\* returned mapping, the returned diagnostic is not empty
C21_Original ==
  (upc = "returned" /\ ListedFiles \ upload_ret.uris # {}) =>
    upload_ret.msg \notin {"", "none"}

(***************************************************************************)
(* Claims about build_resume as a whole                                    *)
(***************************************************************************)
\* an enhancement, render or upload call has been made
ExternalCallMade ==
  enhance_called \/ pc \in {"script", "exited"} \/ upc # "idle"

\* C22: when a required field of build_resume's input (name, email, phone,
\* an experience entry) is missing or empty, build_resume makes no
\* enhancement, render or upload call
C22_Original == RequiredFieldDefect(request) => ~ExternalCallMade

\* build_resume has ended
BuildOver == ppc \in {"returned", "raised", "printed"}

\* C29: whatever fails in build_resume leaves it as one exception with the
\* prefix "Resume building failed:" around the cause, the cause of a failed
\* render or upload step holding that step's diagnostic; build_resume
\* returns only when the render and the upload step reported success; and
\* main prints the exception as one error object
C29_Wrapped ==
  /\ failure.raised => failure.wrapped /\ failure.cause.what # "none"
  /\ (BuildOver /\ ~failure.raised) => ret.success /\ upload_ret.success
  /\ failure.cause.what = "PDF generation failed" =>
       ~ret.success /\ failure.cause.render = ret.msg
  /\ failure.cause.what = "S3 upload failed" =>
       /\ ~upload_ret.success
       /\ failure.cause.upload = upload_ret.msg
       /\ upload_ret.msg \notin {"", "none"}
  /\ (ppc = "printed" /\ failure.raised) =>
       printed.key = "error" /\ printed.error = failure /\ printed.exit = 1

C29_Witness ==
  /\ ppc = "printed"
  /\ printed.key = "error"
  /\ printed.error.wrapped
  /\ printed.error.cause.what = "S3 upload failed"
  /\ pdf_uris # {}

\* C30: upload_pdfs_to_s3 is called only once run_render_script has
\* reported success with exactly 4 new PDFs, which are the files it is
\* given; and build_resume ends either with an exception or with a list of
\* URIs that is not empty
C30_UploadAfterRender ==
  /\ upc # "idle" =>
       /\ ret.success
       /\ Cardinality(ret.new_pdfs) = ExpectedPdfs
       /\ ListedFiles = ret.new_pdfs
  /\ BuildOver => (failure.raised \/ s3_uris # {})
  /\ printed.key = "s3_uris" => printed.uris # {}

C30_Witness ==
  /\ ppc = "returned"
  /\ ~failure.raised
  /\ s3_uris # {}
  /\ Cardinality(s3_uris) < ExpectedPdfs

(***************************************************************************)
(* Properties of two interleaved runs (specification SpecInterleave)       *)
(***************************************************************************)
\* the description files and PDFs that belong to the run for p
OwnYaml(p, f) == f.person = p

OwnPdf(p, f) == f.name = p /\ f.madeBy = p

\* C23: with the runs of two different persons interleaved on the shared
\* working directories, and the renderer succeeding for every theme,
\* neither run deletes a file of the other, and each run that has returned
\* reports success with exactly its own four PDFs.
C23_Original ==
  \A p \in Persons :
    /\ \A f \in removed_yamls[p] : OwnYaml(p, f)
    /\ \A f \in removed_pdfs[p] : OwnPdf(p, f)
    /\ ipc[p] = "returned" =>
         /\ iret[p].success
         /\ Cardinality(iret[p].new_pdfs) = ExpectedPdfs
         /\ \A f \in iret[p].new_pdfs : OwnPdf(p, f)

(***************************************************************************)
(* Properties of the generated summary (specification SpecBuild)           *)
(***************************************************************************)
\* C25: a generated document has a summary section exactly when the bio is
\* non-empty after enhancement, and the section then has one element, the
\* enhanced bio; so no document has a summary whose element is empty, and
\* in build_resume the section is there exactly when the enhanced bio is
\* non-empty.
C25_Original ==
  \A k \in 1..Len(documents) :
    /\ Len(documents[k].summary) <= 1
    /\ \A i \in 1..Len(documents[k].summary) : documents[k].summary[i] # <<>>
    /\ flow = "core" =>
         documents[k].summary =
           IF resume_data.bio # <<>> THEN <<resume_data.bio>> ELSE <<>>

(***************************************************************************)
(* Properties of document assembly (specification SpecDocument)            *)
(***************************************************************************)
\* the sections with dated entries
DatedSections == {"experience", "activities"}

\* e is the date part of the timestamp raw: raw up to its first "T"
IsDatePart(e, raw) ==
  /\ ~Contains(e, "T")
  /\ \/ e = raw
     \/ /\ Len(raw) > Len(e)
        /\ SubSeq(raw, 1, Len(e)) = e
        /\ raw[Len(e) + 1] = "T"

\* e is the end date of the input entry x, as the flow formats it
IsEndDateOf(e, x) ==
  CASE doc_flow = "core" -> e = x.end_date
    [] doc_flow = "app" -> e = strftime(x.end_date)
    [] doc_flow = "main" -> IsDatePart(e, x.end)

\* C24: in every assembled document each experience and each activity
\* entry of the input has its entry, whose end_date is the literal
\* "present" when the entry is current and the entry's (formatted) end
\* date when it is not.
C24_EndDate ==
  \A k \in 1..Len(cv_datas) : \A sec \in DatedSections :
    /\ Len(cv_datas[k][sec].entries) = Len(input_dict[sec])
    /\ \A i \in 1..Len(input_dict[sec]) :
         IF input_dict[sec][i].current
           THEN cv_datas[k][sec].entries[i].end_date = PresentLiteral
           ELSE IsEndDateOf(cv_datas[k][sec].entries[i].end_date,
                            input_dict[sec][i])

\* all documents of a main run are assembled, from a current experience
\* entry and one that ended at a timestamp with a time of day
C24_Witness ==
  /\ doc_flow = "main"
  /\ Len(cv_datas) = Len(Themes)
  /\ \E i, j \in 1..Len(input_dict.experience) :
       /\ input_dict.experience[i].current
       /\ ~input_dict.experience[j].current
       /\ Contains(input_dict.experience[j].end, "T")
       /\ cv_datas[1].experience.entries[i].end_date = PresentLiteral
       /\ cv_datas[1].experience.entries[j].end_date # PresentLiteral

\* the education entries that have a school
Kept(education) ==
  {i \in 1..Len(education) : education[i].school # <<>>}

\* the place among the kept entries of the kept entry i
Rank(education, i) == Cardinality({j \in Kept(education) : j <= i})

\* C26: in every assembled document the education entries are those of the
\* resume data that have a non-empty school, in order; an entry has a
\* location exactly when city and state are both non-empty; and the
\* education section is there exactly when some entry has a school.
C26_Education ==
  \A k \in 1..Len(cv_datas) :
    /\ cv_datas[k].education.present <=>
         Kept(formatted_data.education) # {}
    /\ Len(cv_datas[k].education.entries) =
         Cardinality(Kept(formatted_data.education))
    /\ \A i \in Kept(formatted_data.education) :
         /\ cv_datas[k].education.entries[
              Rank(formatted_data.education, i)].institution =
              formatted_data.education[i].school
         /\ cv_datas[k].education.entries[
              Rank(formatted_data.education, i)].has_location <=>
              /\ formatted_data.education[i].city # <<>>
              /\ formatted_data.education[i].state # <<>>

\* a document assembled from an entry without a school, followed by an
\* entry with a school and a city but no state
C26_Witness ==
  /\ Len(cv_datas) >= 1
  /\ Len(formatted_data.education) = 2
  /\ formatted_data.education[1].school = <<>>
  /\ formatted_data.education[2].school # <<>>
  /\ formatted_data.education[2].city # <<>>
  /\ formatted_data.education[2].state = <<>>
  /\ cv_datas[1].education.present
  /\ Len(cv_datas[1].education.entries) = 1
  /\ ~cv_datas[1].education.entries[1].has_location

\* the theme list of the flow
FlowThemes == IF doc_flow = "app" THEN AppThemes ELSE Themes

\* C27: the k-th assembled document is for the k-th theme, and its design
\* part carries disable_last_updated_date, set to true, exactly when the
\* theme is not moderncv.
C27_Flag ==
  \A k \in 1..Len(cv_datas) :
    /\ cv_datas[k].design.theme = FlowThemes[k]
    /\ cv_datas[k].design.has_flag <=> FlowThemes[k] # "moderncv"
    /\ cv_datas[k].design.has_flag =>
         cv_datas[k].design.disable_last_updated_date

\* the documents of all four themes of the form are assembled: three with
\* the flag, the one for moderncv without
C27_Witness ==
  /\ doc_flow = "app"
  /\ Len(cv_datas) = Len(AppThemes)
  /\ ~cv_datas[2].design.has_flag
  /\ cv_datas[1].design.has_flag

\* phone is '+', then '1' if raw has exactly 10 digits, then raw's digits
IsNormalized(phone, raw) ==
  LET digits == SelectSeq(raw, IsDigit)
      lead == IF DigitCount(raw) = 10 THEN 2 ELSE 1
  IN /\ Len(phone) = lead + Len(digits)
     /\ phone[1] = "+"
     /\ lead = 2 => phone[2] = "1"
     /\ \A i \in 1..Len(digits) : phone[lead + i] = digits[i]

\* C28: the phone number of every document assembled by the core is '+'
\* followed by the digits of the raw input, with '1' before them exactly
\* when there are exactly 10; also in the flow of main, which applies
\* format_phone_number twice.
C28_Phone ==
  doc_flow \in {"main", "core"} =>
    \A k \in 1..Len(cv_datas) :
      IsNormalized(cv_datas[k].phone, input_dict.phone)

\* the documents of a main run are assembled from a raw phone number with
\* exactly 10 digits and a separator
C28_Witness ==
  /\ doc_flow = "main"
  /\ Len(cv_datas) = Len(Themes)
  /\ DigitCount(input_dict.phone) = 10
  /\ Contains(input_dict.phone, "-")
  /\ Len(cv_datas[4].phone) = 12

====
